---- MODULE Spec2Model ----
(***************************************************************************)
(* A model of minigpu: the compute-shader pipeline cache and its dispatch  *)
(* tasks on the WebGPU worker thread (compute_shader.cpp), the typed       *)
(* buffer engine (buffer.cpp) and the pack/unpack conversion kernels       *)
(* (conversion_kernels.h / conversion_kernels.cpp).                        *)
(***************************************************************************)
EXTENDS Integers, Sequences, FiniteSets, TLC

VARIABLES
  shader,     \* the ComputeShader object of the client (compute_shader.h:45-56)
  alive,      \* FALSE once ~ComputeShader has run on it
  tasks,      \* WebGPUThread::tasks, the worker's FIFO of closures
  wk,         \* the worker thread: idle, or inside a dispatch task
  gpuMutex,   \* MGPU::gpuOperationMutex: "free", "worker" or "host"
  gh,         \* history of the pipeline cache: builds, releases, last task
  cv,         \* one run of an unpack kernel on one packed word
  ty,         \* the element type of the client's buffer in this behaviour
  buf,        \* the client's Buffer object (bufferData, bufferType, length, isPacked)
  dev,        \* device memory: dev[h] is the WGPUBuffer with handle h
  host,       \* the host thread: idle, inside a setData call, or after its read
  ubind,      \* the handle the client's shader has bound at slot 0 (0: none)
  lastw,      \* the latest setData call and whether the device holds its data
  bh,         \* history of the host's calls
  rd,         \* the readSync call of the behaviour and what it put in out
  objs,       \* Buffer objects of the lifecycle specification, by object id
  ldev,       \* device memory of the lifecycle specification
  lh,         \* history of the calls on the Buffer objects
  ctx,        \* MGPU::ctx: the device context the MGPU holds (id 0: none)
  ch          \* history of the contexts created and of the calls on the MGPU

pipeVars == <<shader, alive, tasks, wk, gpuMutex, gh>>

convVars == <<cv>>

bufVars == <<ty, buf, dev, host, ubind, lastw, bh, rd>>

lifeVars == <<objs, ldev, lh>>

ctxVars == <<ctx, ch>>

vars == <<pipeVars, convVars, bufVars, lifeVars, ctxVars>>

\* what the pipeline-cache specification leaves alone
notPipe == <<convVars, bufVars, lifeVars, ctxVars>>

\* what the conversion-kernel specification leaves alone
notConv == <<pipeVars, bufVars, lifeVars, ctxVars>>

\* what the buffer specification leaves alone
notBuf == <<shader, alive, gh, convVars, lifeVars, ctxVars>>

---------------------------------------------------------------------------
(* Bounds of the pipeline-cache specification.                             *)
MaxQueue == 1       \* tasks waiting in the worker queue
MaxDispatch == 2    \* dispatch / dispatchAsync calls in one behaviour

Tags == {-1, 0, 1}      \* the tag argument of setBuffer; -1 is rejected
Handles == {0, 1, 2}    \* the buffer argument of setBuffer; 0 is nullptr

KernelStrings == {"", "k1", "k2"}
Dims == {<<1, 1, 1>>, <<0, 1, 1>>}
Kinds == {"sm", "bgl", "pl", "cp", "bg"}
FailPoints == {"none", "sm", "bgl", "pl", "cp", "bg", "enc", "pass", "cmd"}

---------------------------------------------------------------------------
(* ComputeShader: the cached artifacts and the dirty bits.                 *)

NullArt == [isNull |-> TRUE, src |-> "", slots |-> {}, bufs |-> <<>>]

Art(src, slots, bufs) ==
  [isNull |-> FALSE, src |-> src, slots |-> slots, bufs |-> bufs]

NewShader ==
  [shaderCode |-> "", buffers |-> <<>>,
   shaderModule |-> NullArt, bindGroupLayout |-> NullArt,
   pipelineLayout |-> NullArt, computePipeline |-> NullArt,
   bindGroup |-> NullArt,
   pipelineDirty |-> TRUE, bindingsDirty |-> TRUE]

\* the slot indices i with buffers[i].buffer != nullptr (slot i is buffers[i+1])
BoundSlots(s) == {i - 1 : i \in {j \in 1..Len(s.buffers) : s.buffers[j] # 0}}

Res(s, ret, built, rel, failed) ==
  [sh |-> s, ret |-> ret, built |-> built, rel |-> rel, failed |-> failed]

\* the value of a one-element set: binds an intermediate result once
Only(S) == CHOOSE x \in S : TRUE

\* two build steps in sequence: n, computed from r.sh, counts only when the
\* step before it returned true
AndThen(r, n) ==
  IF ~r.ret THEN r
  ELSE Res(n.sh, n.ret, r.built \cup n.built, r.rel \cup n.rel,
           r.failed \/ n.failed)

loadKernelStringUnchecked(s, kernelString) ==
  [s EXCEPT !.shaderCode = kernelString, !.pipelineDirty = TRUE]

loadKernelString(s, kernelString) ==
  IF kernelString = "" \/ s.shaderCode = kernelString THEN s
  ELSE [s EXCEPT !.shaderCode = kernelString, !.pipelineDirty = TRUE]

hasKernel(s) == s.shaderCode # ""

Resize(bufs, n) ==
  IF n <= Len(bufs) THEN bufs
  ELSE bufs \o [i \in 1..(n - Len(bufs)) |-> 0]

setBufferNeverLocks(tag, handle) == FALSE

\* whether setBuffer(tag, buffer) gets past its first return, to the lock_guard
\* on the GPU mutex
setBufferLocks(tag, handle) == tag >= 0 /\ handle # 0

setBufferDirtiesPipeline(s, tag, handle) ==
  IF tag < 0 \/ handle = 0 THEN s
  ELSE LET b == Resize(s.buffers, tag + 1)
       IN IF b[tag + 1] = handle THEN [s EXCEPT !.buffers = b]
          ELSE [s EXCEPT !.buffers = [b EXCEPT ![tag + 1] = handle],
                         !.bindingsDirty = TRUE, !.pipelineDirty = TRUE]

setBuffer(s, tag, handle) ==
  IF tag < 0 \/ handle = 0 THEN s
  ELSE LET b == Resize(s.buffers, tag + 1)
       IN IF b[tag + 1] = handle THEN [s EXCEPT !.buffers = b]
          ELSE [s EXCEPT !.buffers = [b EXCEPT ![tag + 1] = handle],
                         !.bindingsDirty = TRUE]

createShaderModule(s, fail) ==
  IF ~s.shaderModule.isNull /\ ~s.pipelineDirty THEN Res(s, TRUE, {}, {}, FALSE)
  ELSE LET rel == IF s.shaderModule.isNull THEN {} ELSE {"sm"}
           ok == fail # "sm"
           new == IF ok THEN Art(s.shaderCode, {}, <<>>) ELSE NullArt
       IN Res([s EXCEPT !.shaderModule = new], ok,
              IF ok THEN {"sm"} ELSE {}, rel, ~ok)

createBindGroupLayout(s, fail) ==
  IF ~s.bindGroupLayout.isNull /\ ~s.bindingsDirty
  THEN Res(s, TRUE, {}, {}, FALSE)
  ELSE LET rel == IF s.bindGroupLayout.isNull THEN {} ELSE {"bgl"}
           cleared == [s EXCEPT !.bindGroupLayout = NullArt]
       IN IF BoundSlots(s) = {} THEN Res(cleared, FALSE, {}, rel, FALSE)
          ELSE LET ok == fail # "bgl"
                   new == IF ok THEN Art("", BoundSlots(s), <<>>) ELSE NullArt
               IN Res([s EXCEPT !.bindGroupLayout = new], ok,
                      IF ok THEN {"bgl"} ELSE {}, rel, ~ok)

createPipelineLayout(s, fail) ==
  IF ~s.pipelineLayout.isNull /\ ~s.pipelineDirty THEN Res(s, TRUE, {}, {}, FALSE)
  ELSE LET rel == IF s.pipelineLayout.isNull THEN {} ELSE {"pl"}
           ok == fail # "pl"
           new == IF ok THEN Art("", s.bindGroupLayout.slots, <<>>) ELSE NullArt
       IN Res([s EXCEPT !.pipelineLayout = new], ok,
              IF ok THEN {"pl"} ELSE {}, rel, ~ok)

createComputePipeline(s, fail) ==
  IF ~s.computePipeline.isNull /\ ~s.pipelineDirty
  THEN Res(s, TRUE, {}, {}, FALSE)
  ELSE LET rel == IF s.computePipeline.isNull THEN {} ELSE {"cp"}
           ok == fail # "cp"
           new == IF ok THEN Art(s.shaderModule.src, s.pipelineLayout.slots, <<>>)
                  ELSE NullArt
       IN Res([s EXCEPT !.computePipeline = new], ok,
              IF ok THEN {"cp"} ELSE {}, rel, ~ok)

createBindGroup(s, fail) ==
  IF ~s.bindGroup.isNull /\ ~s.bindingsDirty THEN Res(s, TRUE, {}, {}, FALSE)
  ELSE LET rel == IF s.bindGroup.isNull THEN {} ELSE {"bg"}
           cleared == [s EXCEPT !.bindGroup = NullArt]
       IN IF BoundSlots(s) = {} THEN Res(cleared, FALSE, {}, rel, FALSE)
          ELSE LET ok == fail # "bg"
                   new == IF ok THEN Art("", BoundSlots(s), s.buffers)
                          ELSE NullArt
               IN Res([s EXCEPT !.bindGroup = new], ok,
                      IF ok THEN {"bg"} ELSE {}, rel, ~ok)

\* the pipelineDirty branch of updatePipelineIfNeeded
\* the four create* calls in the condition of updatePipelineIfNeeded
BuildPipelineArtifacts(s, fail) ==
  LET S1 == {createShaderModule(s, fail)}
      S2 == {AndThen(r, createBindGroupLayout(r.sh, fail)) : r \in S1}
      S3 == {AndThen(r, createPipelineLayout(r.sh, fail)) : r \in S2}
      S4 == {AndThen(r, createComputePipeline(r.sh, fail)) : r \in S3}
  IN Only(S4)

RebuildPipeline(s, fail) ==
  Only({IF ~r.ret THEN r
        ELSE Res([r.sh EXCEPT !.pipelineDirty = FALSE,
                              !.bindingsDirty = TRUE],
                 TRUE, r.built, r.rel, r.failed) :
        r \in {BuildPipelineArtifacts(s, fail)}})

\* the bindingsDirty branch of updatePipelineIfNeeded
RebuildBindings(s, fail) ==
  IF ~s.bindingsDirty THEN Res(s, TRUE, {}, {}, FALSE)
  ELSE Only({IF ~r.ret THEN r
              ELSE Res([r.sh EXCEPT !.bindingsDirty = FALSE], TRUE,
                       r.built, r.rel, r.failed) :
              r \in {createBindGroup(s, fail)}})

updateKeepsPipelineDirty(s, fail) ==
  Only({AndThen(d, RebuildBindings(d.sh, fail)) :
        d \in {Res([r.sh EXCEPT !.pipelineDirty = s.pipelineDirty], r.ret,
                    r.built, r.rel, r.failed) :
                r \in {IF s.pipelineDirty THEN RebuildPipeline(s, fail)
                       ELSE Res(s, TRUE, {}, {}, FALSE)}}})

updateClearsDirtyOnFailure(s, fail) ==
  Only({[u EXCEPT !.sh.pipelineDirty = FALSE] :
        u \in {AndThen(r, RebuildBindings(r.sh, fail)) :
               r \in {IF s.pipelineDirty THEN RebuildPipeline(s, fail)
                      ELSE Res(s, TRUE, {}, {}, FALSE)}}})

updatePipelineIfNeeded(s, fail) ==
  Only({AndThen(r, RebuildBindings(r.sh, fail)) :
        r \in {IF s.pipelineDirty THEN RebuildPipeline(s, fail)
               ELSE Res(s, TRUE, {}, {}, FALSE)}})

dimsUnchecked(dims) == TRUE

DimsOk(dims) == dims[1] > 0 /\ dims[2] > 0 /\ dims[3] > 0

Out(s, submitted, built, rel, failed, called) ==
  [sh |-> s, submitted |-> submitted, built |-> built, rel |-> rel,
   failed |-> failed, called |-> called]

\* the body of the closure ComputeShader::dispatch enqueues, under the lock
\* the closure of dispatch after its updatePipelineIfNeeded call returned u
dispatchAfterUpdate(u, fail) ==
  IF ~u.ret THEN Out(u.sh, FALSE, u.built, u.rel, u.failed, FALSE)
  ELSE IF u.sh.computePipeline.isNull \/ u.sh.bindGroup.isNull
  THEN Out(u.sh, FALSE, u.built, u.rel, u.failed, FALSE)
  ELSE IF fail \in {"enc", "pass", "cmd"}
  THEN Out(u.sh, FALSE, u.built, u.rel, TRUE, FALSE)
  ELSE Out(u.sh, TRUE, u.built, u.rel, u.failed, FALSE)

dispatchTask(s, dims, fail) ==
  IF s.shaderCode = "" \/ ~DimsOk(dims) THEN Out(s, FALSE, {}, {}, FALSE, FALSE)
  ELSE Only({dispatchAfterUpdate(u, fail) :
             u \in {updatePipelineIfNeeded(s, fail)}})

\* the body of the closure ComputeShader::dispatchAsync enqueues
dispatchAsyncTask(s, dims, cb, fail) ==
  IF s.shaderCode = "" \/ ~DimsOk(dims) THEN Out(s, FALSE, {}, {}, FALSE, cb)
  ELSE Only({IF ~u.ret THEN Out(u.sh, FALSE, u.built, u.rel, u.failed, cb)
              ELSE IF fail \in {"enc", "pass", "cmd"}
              THEN Out(u.sh, FALSE, u.built, u.rel, TRUE, cb)
              ELSE Out(u.sh, TRUE, u.built, u.rel, u.failed, cb) :
              u \in {updatePipelineIfNeeded(s, fail)}})

\* the artifacts ~ComputeShader captures by value for its cleanup task
CapturedArtifacts(s) ==
  {k \in Kinds :
     \/ k = "sm" /\ ~s.shaderModule.isNull
     \/ k = "bgl" /\ ~s.bindGroupLayout.isNull
     \/ k = "pl" /\ ~s.pipelineLayout.isNull
     \/ k = "cp" /\ ~s.computePipeline.isNull
     \/ k = "bg" /\ ~s.bindGroup.isNull}

---------------------------------------------------------------------------
(* 32-bit words of GPU storage as four bytes, least significant first, and *)
(* the WGSL operations the conversion kernels use on them.                 *)

ZeroWord == <<0, 0, 0, 0>>

\* the two's-complement bytes of a host integer of nbytes bytes
BytesOf(v, nbytes) ==
  [i \in 1..nbytes |->
     CASE i = 1 -> v % 256
       [] i = 2 -> (v \div 256) % 256
       [] OTHER -> IF v < 0 THEN 255 ELSE 0]

\* the value of a word read as i32
SignedWord(w) ==
  w[1] + 256 * w[2] + 65536 * w[3]
    + 16777216 * (IF w[4] >= 128 THEN w[4] - 256 ELSE w[4])

\* val << (8 * k)
ShiftLeft(w, k) == [i \in 1..4 |-> IF i - k >= 1 THEN w[i - k] ELSE 0]

\* val >> (8 * k) on u32: zeros come in
ShiftRightLogical(w, k) == [i \in 1..4 |-> IF i + k <= 4 THEN w[i + k] ELSE 0]

\* val >> (8 * k) on i32: copies of the sign bit come in
ShiftRightArith(w, k) ==
  [i \in 1..4 |-> IF i + k <= 4 THEN w[i + k]
                  ELSE IF w[4] >= 128 THEN 255 ELSE 0]

\* val & 0xFF (nbytes = 1), val & 0xFFFF (nbytes = 2)
MaskLow(w, nbytes) == [i \in 1..4 |-> IF i <= nbytes THEN w[i] ELSE 0]

zero_extend_i8(val) == MaskLow(val, 1)

sign_extend_i8(val) == ShiftRightArith(ShiftLeft(val, 3), 3)

sign_extend_i16(val) == ShiftRightArith(ShiftLeft(val, 2), 2)

\* kPackedInt8ToInt32Kernel: what lane l of packed_val becomes
UnpackLaneI8(packed_val, l) ==
  sign_extend_i8(MaskLow(ShiftRightArith(packed_val, l), 1))

\* kPackedInt16ToInt32Kernel: what half l of packed_val becomes
UnpackLaneI16(packed_val, l) ==
  sign_extend_i16(MaskLow(ShiftRightArith(packed_val, 2 * l), 2))

\* static_cast<int8_t> / static_cast<int16_t> of the i32 read back
CastNarrow(w, nbytes) ==
  IF nbytes = 1 THEN (IF w[1] >= 128 THEN w[1] - 256 ELSE w[1])
  ELSE w[1] + 256 * (IF w[2] >= 128 THEN w[2] - 256 ELSE w[2])

\* the packed word the upload leaves on the device: the value's bytes in its
\* lane, the neighbours' bytes around it
PackedWord(v, nbytes, lane, fill) ==
  [i \in 1..4 |->
     IF (i - 1) \div nbytes = lane THEN BytesOf(v, nbytes)[((i - 1) % nbytes) + 1]
     ELSE fill]

\* (packed_val >> 8l) & 0xFF and (packed_val >> 16l) & 0xFFFF of the unsigned
\* kernels, and the signed lanes, by element type
UnpackLane(T, packed_val, l) ==
  CASE T = "i8" -> UnpackLaneI8(packed_val, l)
    [] T = "i16" -> UnpackLaneI16(packed_val, l)
    [] T = "u8" -> MaskLow(ShiftRightLogical(packed_val, l), 1)
    [] OTHER -> MaskLow(ShiftRightLogical(packed_val, 2 * l), 2)

\* no kernel run is being followed
NoConv ==
  [ty |-> "none", v |-> 0, lane |-> 0, packed |-> ZeroWord, stage |-> "in",
   unpacked |-> ZeroWord, host |-> 0]

---------------------------------------------------------------------------
(* The buffer engine: element types, host arrays, device buffers.          *)

MaxLen == 2     \* elements in a host array
MaxOps == 3     \* host calls before the read

\* the sizeParam arguments of createBuffer: element counts and, for the types
\* createBuffer sizes in bytes, the byte sizes of as many elements
CreateSizes(T) ==
  (1..MaxLen) \cup (IF T \in {"f32", "i32", "u32"}
                    THEN {4 * n : n \in 1..MaxLen} ELSE {})

\* the host arrays differ by their seed
Seeds == {1, 2}

Types == {"f32", "i32", "u32", "i8", "u8", "i16", "u16", "f64", "i64", "u64"}

\* how createBuffer stores a type: as it is, one word per narrow element,
\* or two words per 64-bit element
Class(T) ==
  CASE T \in {"i8", "u8"} -> "n8"
    [] T \in {"i16", "u16"} -> "n16"
    [] T \in {"f64", "i64", "u64"} -> "wide"
    [] OTHER -> "direct"

\* sizeof the host element type
ElemSize(T) ==
  CASE Class(T) = "n8" -> 1 [] Class(T) = "n16" -> 2
    [] Class(T) = "wide" -> 8 [] OTHER -> 4

\* the internalDataType createBuffer picks
InternalType(T) ==
  CASE T \in {"i8", "i16", "i64"} -> "i32"
    [] T \in {"u8", "u16", "f64", "u64"} -> "u32"
    [] OTHER -> T

\* 32-bit words one logical element takes on the device
WordsPerElem(T) == IF Class(T) = "wide" THEN 2 ELSE 1

\* narrow elements that share one word of the packed upload
PackingRatio(T) == IF Class(T) = "n8" THEN 4 ELSE 2

\* element i of the host array the client passes to setData: its bytes
Elem(T, seed, i) ==
  [p \in 1..ElemSize(T) |-> (131 * seed + 67 * i + 29 * p) % 256]

HostArray(T, n, seed) == [i \in 1..n |-> Elem(T, seed, i)]

\* an entry of out that readSync has not written
Unset == <<>>

NullBuf ==
  [handle |-> 0, size |-> 0, bufferType |-> "unknown", length |-> 0,
   isPacked |-> FALSE]

Zeroes(nwords) == [i \in 1..nwords |-> ZeroWord]

\* wgpuBufferRelease of handle h (nothing for nullptr)
FreeHandle(d, h) ==
  IF h = 0 THEN d ELSE [d EXCEPT ![h].live = FALSE, ![h].rel = @ + 1]

Min(a, b) == IF a < b THEN a ELSE b

createBuffer(b, d, sizeParam, T) ==
  LET logicalLength == IF Class(T) = "direct" THEN sizeParam \div ElemSize(T)
                       ELSE sizeParam
      requested == IF Class(T) = "direct" THEN sizeParam
                   ELSE sizeParam * 4 * WordsPerElem(T)
      raised == IF requested > 0 /\ requested < 4 THEN 4 ELSE requested
      physicalByteSize == ((raised + 3) \div 4) * 4
  IN IF logicalLength > 0 /\ requested = 0 THEN [buf |-> b, dev |-> d]
     ELSE IF physicalByteSize = 0 /\ logicalLength = 0
     THEN [buf |-> NullBuf, dev |-> d]
     ELSE [buf |-> [handle |-> Len(d) + 1, size |-> physicalByteSize,
                    bufferType |-> InternalType(T), length |-> logicalLength,
                    isPacked |-> Class(T) # "direct"],
           dev |-> Append(FreeHandle(d, b.handle),
                          [live |-> TRUE, rel |-> 0,
                           words |-> Zeroes(physicalByteSize \div 4)])]

originalTypeIsInternalType(b) == b.bufferType

getOriginalDataType(b) ==
  IF ~b.isPacked THEN b.bufferType
  ELSE IF b.bufferType \in {"i32", "u32"} /\ b.length > 0
          /\ b.size >= b.length * 4 /\ b.size < b.length * 4 + 4
          /\ b.size >= ((b.length + 3) \div 4) * 4
  THEN (IF b.bufferType = "i32" THEN "i8" ELSE "u8")
  ELSE IF b.bufferType = "u32" /\ b.size >= b.length * 8
          /\ b.size < b.length * 8 + 4
  THEN "f64"
  ELSE "unknown"

recreateBufferSafely(b, d, newLogicalLength, T) ==
  Only({IF c.buf.handle = 0 THEN [buf |-> c.buf, dev |-> c.dev, ok |-> FALSE]
        ELSE [buf |-> c.buf, dev |-> FreeHandle(c.dev, b.handle), ok |-> TRUE] :
        c \in {createBuffer(NullBuf, d, newLogicalLength, T)}})

ensureBufferNeverGrows(b, d, requiredLogicalLength, T) ==
  IF b.handle # 0
  THEN IF getOriginalDataType(b) = T
       THEN [buf |-> [b EXCEPT !.length = requiredLogicalLength], dev |-> d,
             ok |-> TRUE]
       ELSE recreateBufferSafely(b, d, requiredLogicalLength, T)
  ELSE Only({[buf |-> c.buf, dev |-> c.dev, ok |-> c.buf.handle # 0] :
             c \in {createBuffer(b, d, requiredLogicalLength, T)}})

ensureBuffer(b, d, requiredLogicalLength, T) ==
  IF b.handle # 0
  THEN IF getOriginalDataType(b) = T /\ b.length >= requiredLogicalLength
       THEN [buf |-> [b EXCEPT !.length = requiredLogicalLength], dev |-> d,
             ok |-> TRUE]
       ELSE recreateBufferSafely(b, d, requiredLogicalLength, T)
  ELSE Only({[buf |-> c.buf, dev |-> c.dev, ok |-> c.buf.handle # 0] :
             c \in {createBuffer(b, d, requiredLogicalLength, T)}})

\* what wgpuDeviceCreateBuffer inside createBuffer returns: a buffer or
\* nullptr.  No statement of createBuffer throws.
CreateOutcomes == {"created", "null"}

\* recreateBufferSafely when the creation it asks for ends in outcome; an
\* outcome other than "created" and "null" is an exception, which the catch
\* clause of recreateBufferSafely handles
recreateBufferSafelyOn(b, d, newLogicalLength, T, outcome) ==
  Only({IF c.buf.handle = 0 \/ outcome = "created"
        THEN recreateBufferSafely(b, d, newLogicalLength, T)
        ELSE IF outcome = "null"
        THEN [buf |-> NullBuf, dev |-> d, ok |-> FALSE]
        ELSE [buf |-> [NullBuf EXCEPT !.handle = b.handle, !.size = b.size],
              dev |-> d, ok |-> FALSE] :
        c \in {createBuffer(NullBuf, d, newLogicalLength, T)}})

\* ensureBuffer when the creation it asks for, if any, ends in outcome
ensureBufferOn(b, d, requiredLogicalLength, T, outcome) ==
  IF b.handle # 0
  THEN IF getOriginalDataType(b) = T /\ b.length >= requiredLogicalLength
       THEN ensureBuffer(b, d, requiredLogicalLength, T)
       ELSE recreateBufferSafelyOn(b, d, requiredLogicalLength, T, outcome)
  ELSE Only({IF c.buf.handle = 0 \/ outcome = "created"
             THEN ensureBuffer(b, d, requiredLogicalLength, T)
             ELSE [buf |-> IF outcome = "null" THEN NullBuf ELSE b,
                   dev |-> d, ok |-> FALSE] :
             c \in {createBuffer(b, d, requiredLogicalLength, T)}})

isPackedType(T) == Class(T) # "direct"

releaseKeepsHandle(b, d) == [buf |-> b, dev |-> FreeHandle(d, b.handle)]

\* Buffer::release
release(b, d) ==
  IF b.handle = 0 THEN [buf |-> b, dev |-> d]
  ELSE [buf |-> NullBuf, dev |-> FreeHandle(d, b.handle)]

\* the words gpu::toGPU uploads for a host array: the elements themselves,
\* the two halves of each 64-bit element, or narrow elements packed
\* PackingRatio to a word with zero padding
UploadWords(T, a) ==
  CASE Class(T) = "direct" -> a
    [] Class(T) = "wide" ->
         [w \in 1..(2 * Len(a)) |->
            [p \in 1..4 |-> a[(w + 1) \div 2][p + 4 * ((w + 1) % 2)]]]
    [] OTHER ->
         [w \in 1..((Len(a) + PackingRatio(T) - 1) \div PackingRatio(T)) |->
            [p \in 1..4 |->
               LET e == (w - 1) * PackingRatio(T) + ((p - 1) \div ElemSize(T)) + 1
               IN IF e <= Len(a) THEN a[e][((p - 1) % ElemSize(T)) + 1] ELSE 0]]

\* gpu::toGPU: a queue write from offset 0; a write past the end of the
\* buffer is a validation error and writes nothing
toGPU(d, h, words) ==
  IF Len(words) > Len(d[h].words) THEN d
  ELSE [d EXCEPT ![h].words =
          [i \in 1..Len(@) |-> IF i <= Len(words) THEN words[i] ELSE @[i]]]

\* one run of an unpack kernel over its two bindings
UnpackKernel(T, packed_input, unpacked_output) ==
  [idx \in 1..Len(unpacked_output) |->
     IF ((idx - 1) \div PackingRatio(T)) + 1 <= Len(packed_input)
     THEN UnpackLane(T, packed_input[((idx - 1) \div PackingRatio(T)) + 1],
                     (idx - 1) % PackingRatio(T))
     ELSE unpacked_output[idx]]

\* the checks of dispatchPacked*to*32 before it builds its shader
DispatcherAccepts(T, packed, unpacked) ==
  /\ packed.bufferType = InternalType(T)
  /\ unpacked.bufferType = InternalType(T)
  /\ unpacked.isPacked
  /\ unpacked.length > 0
  /\ packed.handle # 0
  /\ packed.length >= (unpacked.length + PackingRatio(T) - 1) \div PackingRatio(T)
  /\ unpacked.handle # 0
  /\ unpacked.size >= unpacked.length * 4

\* the kernel of the client's shader: it adds one to every word it is bound to
UserKernel(words) ==
  [i \in 1..Len(words) |-> [words[i] EXCEPT ![1] = (@ + 1) % 256]]

strideWrongForNarrow(T) == ElemSize(T)

\* bytes from one logical element to the next in device storage
ReadStride(T) == 4 * WordsPerElem(T)

clampMissing(length, readElementOffset, count) == count

calculateClampedReadRange(length, readElementOffset, count) ==
  IF readElementOffset >= length THEN 0
  ELSE Min(count, length - readElementOffset)

\* the host element readSync makes of the device bytes at byte offset off:
\* the word itself, the cast of one word, or two words copied
ElemAt(T, words, off) ==
  [p \in 1..ElemSize(T) |-> words[((off + p - 1) \div 4) + 1][((off + p - 1) % 4) + 1]]

\* Buffer::readSync: what out holds when the call returns
\* validateReadPreconditions(outputData, readAsType); outputGiven is
\* outputData != nullptr
validateReadPreconditions(b, outputGiven) == b.handle # 0 /\ outputGiven

validateStateIgnoringPacked(b, T) == b.bufferType = InternalType(T)

\* validateBufferStateForRead(readAsType, expectedInternalType,
\* expectedPackedState) with the arguments the readSync* function of T passes
validateBufferStateForRead(b, T) ==
  /\ b.isPacked = (Class(T) # "direct")
  /\ b.bufferType = InternalType(T)

readSync(b, d, T, readElementCount, readElementOffset, out) ==
  IF b.handle = 0 THEN out
  ELSE IF ~validateBufferStateForRead(b, T)
  THEN out
  ELSE LET clamped == calculateClampedReadRange(b.length, readElementOffset,
                                                readElementCount)
           sourceOffsetBytes == readElementOffset * ReadStride(T)
           fits == IF sourceOffsetBytes >= b.size THEN 0
                   ELSE Min(clamped, (b.size - sourceOffsetBytes) \div ReadStride(T))
       IN [i \in 1..Len(out) |->
             IF i <= fits
             THEN ElemAt(T, d[b.handle].words,
                         sourceOffsetBytes + (i - 1) * ReadStride(T))
             ELSE out[i]]

NoWrite ==
  [id |-> 0, n |-> 0, seed |-> 0, applied |-> FALSE, dirty |-> FALSE]

HostIdle == [pc |-> "idle", n |-> 0, seed |-> 0, tmp |-> NullBuf]

NoRead ==
  [did |-> FALSE, count |-> 0, offset |-> 0, out |-> <<>>, length |-> 0,
   pending |-> 0, roundTrip |-> FALSE, w |-> NoWrite]

\* a Buffer just constructed, of element type T, and nothing on the device
BufAtConstruction(T) ==
  /\ ty = T
  /\ buf = NullBuf
  /\ dev = <<>>
  /\ host = HostIdle
  /\ ubind = 0
  /\ lastw = NoWrite
  /\ bh = [nops |-> 0, seq |-> "none", created |-> 0, c3 |-> "none"]
  /\ rd = NoRead

NoCall == [op |-> "none", o |-> 0, T |-> "unknown", n |-> 0]

NullCtx == [id |-> 0, initialized |-> FALSE]

NoThread == [kind |-> "none", cb |-> FALSE]

NoCtxCall == [op |-> "none", ok |-> FALSE, before |-> NullCtx, ret |-> 0]

\* an MGPU just constructed: no context, no thread started
CtxAtConstruction ==
  /\ ctx = NullCtx
  /\ ch = [created |-> 0, destroyed |-> {}, nops |-> 0, call |-> NoCtxCall,
           thread |-> NoThread,
           done |-> [kind |-> "none", cb |-> FALSE, failed |-> FALSE,
                     called |-> 0]]

\* one Buffer object just constructed, the other not yet, nothing on the device
LifeAtConstruction ==
  /\ objs = [o \in {1, 2} |-> [st |-> IF o = 1 THEN "live" ELSE "none",
                                b |-> NullBuf]]
  /\ ldev = <<>>
  /\ lh = [nops |-> 0, call |-> NoCall, before |-> NullBuf, words |-> <<>>,
           out |-> <<>>, given |-> TRUE, creation |-> "created",
           req |-> [o \in {1, 2} |-> "unknown"], reqWas |-> "unknown",
           zero |-> [o \in {1, 2} |-> FALSE],
           released |-> [o \in {1, 2} |-> FALSE]]

---------------------------------------------------------------------------
(* The worker queue and the tasks in it.                                   *)

\* a task in the worker's queue; id is its place in the order of enqueueing
Task(kind, dims, cb, mark, arts, id) ==
  [kind |-> kind, dims |-> dims, cb |-> cb, mark |-> mark, arts |-> arts,
   id |-> id]

\* the worker between tasks; behind is the number of tasks that waited behind
\* the task the worker took last
Idle ==
  [state |-> "idle", task |-> Task("none", <<0, 0, 0>>, FALSE, "none", {}, 0),
   behind |-> 0]

popNewest(q) == [task |-> q[Len(q)], rest |-> SubSeq(q, 1, Len(q) - 1)]

\* the worker loop takes the task at the front of the queue
popTask(q) == [task |-> Head(q), rest |-> Tail(q)]

NoLast ==
  [submitted |-> FALSE, built |-> {}, mark |-> "none", failed |-> FALSE,
   events |-> <<>>]

\* what a dispatch task did towards the outside, in the order of its closure:
\* wgpuQueueSubmit, then the callback
TaskEvents(o) ==
  (IF o.submitted THEN <<"submit">> ELSE <<>>)
    \o (IF o.called THEN <<"callback">> ELSE <<>>)

Bump(f, S) == [k \in Kinds |-> IF k \in S THEN f[k] + 1 ELSE f[k]]

Drop(f, S) == [k \in Kinds |-> IF k \in S THEN f[k] - 1 ELSE f[k]]

NoBuilds == [k \in Kinds |-> 0]

\* the cache is clean after a dispatch that was submitted, and nothing is queued
Settled ==
  /\ alive
  /\ wk.state = "idle"
  /\ tasks = <<>>
  /\ gh.last.submitted
  /\ ~shader.pipelineDirty
  /\ ~shader.bindingsDirty

\* a ComputeShader just constructed, and an empty worker queue
PipeAtConstruction ==
  /\ shader = NewShader
  /\ alive = TRUE
  /\ tasks = <<>>
  /\ wk = Idle
  /\ gpuMutex = "free"
  /\ gh = [builds |-> NoBuilds, live |-> NoBuilds,
           phase |-> "setup", issued |-> 0, done |-> 0, drvFailed |-> FALSE,
           last |-> NoLast, scen |-> "none"]

InitPipe ==
  /\ PipeAtConstruction
  /\ cv = NoConv
  /\ BufAtConstruction("f32")
  /\ LifeAtConstruction
  /\ CtxAtConstruction

\* a host call on the shader ends the scenario a queued dispatch belongs to
Unmark(q) == [i \in 1..Len(q) |-> [q[i] EXCEPT !.mark = "none"]]

UnmarkWorker(w) == [w EXCEPT !.task.mark = "none"]

\* builds and done count the dispatches of the set-up-then-dispatch phase only
Leave(g) ==
  IF g.phase = "setup" THEN g
  ELSE [g EXCEPT !.phase = "mixed", !.builds = NoBuilds, !.done = 0,
                 !.drvFailed = FALSE]

LoadKernelString(k) ==
  /\ alive
  /\ shader' = loadKernelString(shader, k)
  /\ gh' = [Leave(gh) EXCEPT
              !.scen = IF k = "" \/ k = shader.shaderCode THEN "sameSource"
                       ELSE IF Settled THEN "src" ELSE "none"]
  /\ tasks' = Unmark(tasks)
  /\ wk' = UnmarkWorker(wk)
  /\ UNCHANGED <<alive, gpuMutex, notPipe>>

SetBuffer(tag, handle) ==
  /\ alive
  /\ setBufferLocks(tag, handle) => gpuMutex = "free"
  /\ shader' = setBuffer(shader, tag, handle)
  /\ gh' = [Leave(gh) EXCEPT
              !.scen = IF tag < 0 \/ handle = 0
                            \/ (tag < Len(shader.buffers)
                                  /\ shader.buffers[tag + 1] = handle)
                       THEN "sameBinding"
                       ELSE IF Settled /\ shader'.bindingsDirty
                       THEN "bind" ELSE "none"]
  /\ tasks' = Unmark(tasks)
  /\ wk' = UnmarkWorker(wk)
  /\ UNCHANGED <<alive, gpuMutex, notPipe>>

\* this call is one of the consecutive dispatches that follow the set-up
InPhase(dims) ==
  /\ DimsOk(dims)
  /\ hasKernel(shader)
  /\ BoundSlots(shader) # {}
  /\ gh.phase \in {"setup", "disp"}

Enqueue(kind, dims, cb) ==
  /\ alive
  /\ Len(tasks) < MaxQueue
  /\ gh.issued < MaxDispatch
  /\ tasks' = Append(tasks,
        Task(kind, dims, cb,
             IF DimsOk(dims) /\ gh.scen \in {"src", "bind"} THEN gh.scen
             ELSE "none", {}, gh.issued + 1))
  /\ gh' = [(IF InPhase(dims) THEN gh ELSE Leave([gh EXCEPT !.phase = "mixed"]))
             EXCEPT !.issued = @ + 1,
                    !.scen = "none",
                    !.phase = IF InPhase(dims) THEN "disp" ELSE "mixed"]
  /\ UNCHANGED <<shader, alive, wk, gpuMutex, notPipe>>

Dispatch(dims) == Enqueue("dispatch", dims, FALSE)

DispatchAsync(dims, cb) == Enqueue("dispatchAsync", dims, cb)

\* ~ComputeShader: the cleanup task takes the artifact handles as they are now
Destroy ==
  /\ alive
  /\ Len(tasks) < MaxQueue + 1
  /\ alive' = FALSE
  /\ tasks' = Append(Unmark(tasks),
        Task("cleanup", <<0, 0, 0>>, FALSE, "none", CapturedArtifacts(shader),
             gh.issued + 1))
  /\ wk' = UnmarkWorker(wk)
  /\ gh' = [Leave([gh EXCEPT !.phase = "mixed"]) EXCEPT !.scen = "none"]
  /\ UNCHANGED <<shader, gpuMutex, notPipe>>

\* the worker pops the cleanup task and releases what the destructor captured
WorkerCleanup ==
  /\ wk.state = "idle"
  /\ tasks # <<>>
  /\ \E p \in {popTask(tasks)} :
       /\ p.task.kind = "cleanup"
       /\ tasks' = p.rest
       /\ gh' = [gh EXCEPT !.live = Drop(@, p.task.arts)]
  /\ UNCHANGED <<shader, alive, wk, gpuMutex, notPipe>>

\* the worker pops a dispatch task, which first takes the GPU mutex
WorkerLock ==
  /\ wk.state = "idle"
  /\ tasks # <<>>
  /\ gpuMutex = "free"
  /\ gpuMutex' = "worker"
  /\ \E p \in {popTask(tasks)} :
       /\ p.task.kind \in {"dispatch", "dispatchAsync"}
       /\ wk' = [state |-> "locked", task |-> p.task, behind |-> Len(p.rest)]
       /\ tasks' = p.rest
  /\ UNCHANGED <<shader, alive, gh, notPipe>>

Record(o, t) ==
  [gh EXCEPT
     !.builds = IF gh.phase = "mixed" THEN NoBuilds ELSE Bump(@, o.built),
     !.live = Bump(Drop(@, o.rel), o.built),
     !.done = IF gh.phase = "mixed" THEN 0 ELSE @ + 1,
     !.drvFailed = IF gh.phase = "mixed" THEN FALSE ELSE @ \/ o.failed,
     !.last = [submitted |-> o.submitted, built |-> o.built,
               mark |-> t.mark, failed |-> o.failed,
               events |-> TaskEvents(o)]]

RunTask(s, t, fail) ==
  IF t.kind = "dispatch" THEN dispatchTask(s, t.dims, fail)
  ELSE dispatchAsyncTask(s, t.dims, t.cb, fail)

\* the task body on a live shader object
WorkerRun(fail) ==
  /\ wk.state = "locked"
  /\ alive
  /\ \E o \in {RunTask(shader, wk.task, fail)} :
        /\ shader' = o.sh
        /\ gh' = Record(o, wk.task)
  /\ wk' = [wk EXCEPT !.state = "ran"]
  /\ UNCHANGED <<alive, tasks, gpuMutex, notPipe>>

\* the task body through a dangling this: the destructor has run. Either the
\* object's memory still reads as it was left, or the task sees no kernel.
WorkerRunDangling(fail, stale) ==
  /\ wk.state = "locked"
  /\ ~alive
  /\ \E o \in {IF stale THEN RunTask(shader, wk.task, fail)
                  ELSE Out(shader, FALSE, {}, {}, FALSE, FALSE)} :
        /\ shader' = o.sh
        /\ gh' = Record(o, wk.task)
  /\ wk' = [wk EXCEPT !.state = "ran"]
  /\ UNCHANGED <<alive, tasks, gpuMutex, notPipe>>

\* the lock_guard goes out of scope: the task ends
WorkerUnlock ==
  /\ wk.state = "ran"
  /\ gpuMutex' = "free"
  /\ wk' = Idle
  /\ UNCHANGED <<shader, alive, tasks, gh, notPipe>>

NextPipe ==
  \/ \E k \in KernelStrings : LoadKernelString(k)
  \/ \E tag \in Tags, h \in Handles : SetBuffer(tag, h)
  \/ \E d \in Dims : Dispatch(d)
  \/ \E d \in Dims, cb \in BOOLEAN : DispatchAsync(d, cb)
  \/ Destroy
  \/ WorkerCleanup
  \/ WorkerLock
  \/ \E f \in FailPoints : WorkerRun(f)
  \/ \E f \in FailPoints, st \in BOOLEAN : WorkerRunDangling(f, st)
  \/ WorkerUnlock

SpecPipe == InitPipe /\ [][NextPipe]_vars

---------------------------------------------------------------------------
(* Claims about the pipeline cache, checked under SpecPipe.                *)

\* C5: once loadKernelString and setBuffer calls are finished, consecutive
\* dispatches with positive dimensions and no loadKernelString or setBuffer
\* in between build each of the five artifacts exactly once in total: after
\* the first of them has run every build count is 1, and stays 1 after the
\* later ones (no driver call failing).
C5_ArtifactsBuiltOnce ==
  (gh.phase = "disp" /\ ~gh.drvFailed /\ gh.done >= 1)
    => \A k \in Kinds : gh.builds[k] = 1

C5_Witness ==
  /\ gh.phase = "disp"
  /\ ~gh.drvFailed
  /\ gh.done >= 2
  /\ gh.last.submitted
  /\ gh.last.built = {}
  /\ \A k \in Kinds : gh.builds[k] = 1

\* C6: after a successful dispatch, loadKernelString with a different
\* non-empty source followed by a dispatch that is submitted rebuilds all five
\* artifacts, the bind-group layout included.
C6_SourceChangeRebuildsAll ==
  (gh.last.mark = "src" /\ gh.last.submitted) => gh.last.built = Kinds

\* C7: after a successful dispatch, setBuffer on a slot with a different
\* buffer handle followed by a dispatch that is submitted rebuilds the bind
\* group and rebuilds neither the shader module, nor the pipeline layout, nor
\* the compute pipeline.
C7_RebindRebuildsBindGroupOnly ==
  (gh.last.mark = "bind" /\ gh.last.submitted)
    => /\ "bg" \in gh.last.built
       /\ gh.last.built \cap {"sm", "pl", "cp"} = {}

C7_Witness ==
  /\ gh.last.mark = "bind"
  /\ gh.last.submitted
  /\ gh.last.built = {"bg"}
  /\ shader.bindGroup.bufs = shader.buffers

---------------------------------------------------------------------------
(* The unpack kernels applied to every signed narrow value in every lane.  *)

NarrowBytes(T) == IF T = "i8" THEN 1 ELSE 2

NarrowValues(T) == IF T = "i8" THEN -128..127 ELSE -32768..32767

InitConv ==
  /\ \E T \in {"i8", "i16"} :
       \E v \in NarrowValues(T), lane \in 0..((4 \div NarrowBytes(T)) - 1),
          fill \in {0, 255} :
         cv = [ty |-> T, v |-> v, lane |-> lane,
               packed |-> PackedWord(v, NarrowBytes(T), lane, fill),
               stage |-> "in", unpacked |-> ZeroWord, host |-> 0]
  /\ PipeAtConstruction
  /\ BufAtConstruction("i8")
  /\ LifeAtConstruction
  /\ CtxAtConstruction

\* one invocation of kPackedInt8ToInt32Kernel writes the lane's output word
UnpackI8 ==
  /\ cv.ty = "i8"
  /\ cv.stage = "in"
  /\ cv' = [cv EXCEPT !.stage = "unpacked",
                      !.unpacked = UnpackLaneI8(cv.packed, cv.lane)]
  /\ UNCHANGED notConv

\* one invocation of kPackedInt16ToInt32Kernel writes the half's output word
UnpackI16 ==
  /\ cv.ty = "i16"
  /\ cv.stage = "in"
  /\ cv' = [cv EXCEPT !.stage = "unpacked",
                      !.unpacked = UnpackLaneI16(cv.packed, cv.lane)]
  /\ UNCHANGED notConv

\* readSyncPackedSmallTypes casts the word it read to the narrow type
ReadBackNarrow ==
  /\ cv.stage = "unpacked"
  /\ cv' = [cv EXCEPT !.stage = "read",
                      !.host = CastNarrow(cv.unpacked, NarrowBytes(cv.ty))]
  /\ UNCHANGED notConv

NextConv == UnpackI8 \/ UnpackI16 \/ ReadBackNarrow

SpecConv == InitConv /\ [][NextConv]_vars

\* C10: every int8 in [-128, 127] and every int16 in [-32768, 32767], in any
\* lane of its packed word, is unpacked to the 32-bit word holding the same
\* signed value, and reads back on the host as that value.
C10_SignPreserved ==
  /\ cv.stage \in {"unpacked", "read"} => SignedWord(cv.unpacked) = cv.v
  /\ cv.stage = "read" => cv.host = cv.v

C10_Witness ==
  /\ cv.ty = "i8"
  /\ cv.v = -128
  /\ cv.lane = 3
  /\ cv.stage = "read"
  /\ SignedWord(cv.unpacked) = -128
  /\ cv.host = -128


---------------------------------------------------------------------------
(* The buffer engine: one host thread calling createBuffer, setData,       *)
(* setBuffer, dispatch, release and one readSync, and the worker thread.   *)

BufTask(kind, who, wr, src, dst) ==
  [kind |-> kind, who |-> who, wr |-> wr, src |-> src, dst |-> dst]

HostCanCall == host.pc = "idle" /\ bh.nops < MaxOps

Called(seq, created) == [bh EXCEPT !.nops = @ + 1, !.seq = seq, !.created = created]

\* setData has returned
Returned == [bh EXCEPT !.seq = IF @ = "writing" THEN "written" ELSE "none"]

Init ==
  /\ \E T \in Types : BufAtConstruction(T)
  /\ PipeAtConstruction
  /\ cv = NoConv
  /\ LifeAtConstruction
  /\ CtxAtConstruction

\* Buffer::createBuffer(sizeParam, ty)
CreateBuffer(sizeParam) ==
  /\ HostCanCall
  /\ sizeParam \in CreateSizes(ty)
  /\ \E c \in {createBuffer(buf, dev, sizeParam, ty)} :
        /\ buf' = c.buf
        /\ dev' = c.dev
  /\ lastw' = NoWrite
  /\ bh' = Called("created", sizeParam)
  /\ UNCHANGED <<ty, host, ubind, rd, tasks, wk, gpuMutex, notBuf>>

\* setData of a direct or 64-bit type, up to and including ensureBuffer
WriteBeginDirect(n, seed) ==
  /\ HostCanCall
  /\ Class(ty) \in {"direct", "wide"}
  /\ \E e \in {IF ty = "f32" /\ buf.handle = 0
               THEN [buf |-> buf, dev |-> dev, ok |-> FALSE]
               ELSE ensureBuffer(buf, dev, n, ty)} :
        /\ buf' = e.buf
        /\ dev' = e.dev
        /\ host' = IF e.ok THEN [pc |-> "w_up", n |-> n, seed |-> seed,
                                 tmp |-> NullBuf]
                   ELSE HostIdle
        /\ bh' = Called(IF ~e.ok THEN "none"
                        ELSE IF bh.seq = "created" /\ bh.created = n
                        THEN "writing" ELSE "other", bh.created)
  /\ lastw' = [id |-> bh.nops + 1, n |-> n, seed |-> seed, applied |-> FALSE,
               dirty |-> FALSE]
  /\ UNCHANGED <<ty, ubind, rd, tasks, wk, gpuMutex, notBuf>>

\* the gpu::toGPU call that ends setData of a direct or 64-bit type
WriteUpload ==
  /\ host.pc = "w_up"
  /\ \E words \in {UploadWords(ty, HostArray(ty, host.n, host.seed))} :
        \E fits \in {Len(words) * 4 <= buf.size} :
          /\ dev' = IF ty = "f32" /\ ~fits THEN dev
                    ELSE toGPU(dev, buf.handle, words)
          /\ lastw' = [lastw EXCEPT !.applied = fits, !.dirty = FALSE]
  /\ host' = HostIdle
  /\ bh' = Returned
  /\ UNCHANGED <<ty, buf, ubind, rd, tasks, wk, gpuMutex, notBuf>>

\* setData of an 8-bit or 16-bit type: the temporary buffer, the packed
\* upload into it, and ensureBuffer on the buffer itself
WriteBeginNarrow(n, seed) ==
  /\ HostCanCall
  /\ Class(ty) \in {"n8", "n16"}
  /\ \E words \in {UploadWords(ty, HostArray(ty, n, seed))} :
       \E t \in {createBuffer(NullBuf, dev, 4 * Len(words), InternalType(ty))} :
         \E e \in {ensureBuffer(buf, toGPU(t.dev, t.buf.handle, words), n, ty)} :
           /\ buf' = e.buf
           /\ dev' = e.dev
           /\ host' = [pc |-> IF e.ok THEN "w_disp" ELSE "w_rel", n |-> n,
                       seed |-> seed, tmp |-> t.buf]
  /\ lastw' = [id |-> bh.nops + 1, n |-> n, seed |-> seed, applied |-> FALSE,
               dirty |-> FALSE]
  /\ bh' = Called(IF bh.seq = "created" /\ bh.created = n THEN "writing"
                  ELSE "other", bh.created)
  /\ UNCHANGED <<ty, ubind, rd, tasks, wk, gpuMutex, notBuf>>

\* dispatchPacked*to*32 up to shader.dispatch: a function-local shader, two
\* setBuffer calls under the GPU mutex, and the unpack task enqueued
WriteDispatch ==
  /\ host.pc = "w_disp"
  /\ gpuMutex = "free"
  /\ Len(tasks) < MaxQueue
  /\ IF DispatcherAccepts(ty, host.tmp, buf)
     THEN /\ tasks' = Append(tasks, BufTask("dispatch", "conv", lastw.id,
                                            host.tmp.handle, buf.handle))
          /\ host' = [host EXCEPT !.pc = "w_dtor"]
     ELSE /\ tasks' = tasks
          /\ host' = [host EXCEPT !.pc = "w_rel"]
  /\ UNCHANGED <<ty, buf, dev, ubind, lastw, bh, rd, wk, gpuMutex, notBuf>>

\* dispatchPacked*to*32 returns: ~ComputeShader of its local shader
WriteShaderDtor ==
  /\ host.pc = "w_dtor"
  /\ Len(tasks) <= MaxQueue
  /\ tasks' = Append(tasks, BufTask("cleanup", "conv", lastw.id, 0, 0))
  /\ host' = [host EXCEPT !.pc = "w_rel"]
  /\ UNCHANGED <<ty, buf, dev, ubind, lastw, bh, rd, wk, gpuMutex, notBuf>>

\* initialPackedUploadBuffer.release(), and setData returns
WriteRelease ==
  /\ host.pc = "w_rel"
  /\ dev' = FreeHandle(dev, host.tmp.handle)
  /\ host' = HostIdle
  /\ bh' = Returned
  /\ UNCHANGED <<ty, buf, ubind, lastw, rd, tasks, wk, gpuMutex, notBuf>>

\* setBuffer(0, buf) on the client's shader
UserSetBuffer ==
  /\ HostCanCall
  /\ buf.handle # 0 => gpuMutex = "free"
  /\ ubind' = IF buf.handle # 0 THEN buf.handle ELSE ubind
  /\ bh' = Called("none", bh.created)
  /\ UNCHANGED <<ty, buf, dev, host, lastw, rd, tasks, wk, gpuMutex, notBuf>>

\* dispatch(1, 1, 1) on the client's shader
UserDispatch ==
  /\ HostCanCall
  /\ Len(tasks) < MaxQueue
  /\ tasks' = Append(tasks,
        BufTask("dispatch", "user",
                IF ubind # 0 /\ ubind = buf.handle THEN lastw.id ELSE 0, 0, 0))
  /\ bh' = Called("none", bh.created)
  /\ UNCHANGED <<ty, buf, dev, host, ubind, lastw, rd, wk, gpuMutex, notBuf>>

\* Buffer::release
ReleaseBuffer ==
  /\ HostCanCall
  /\ \E r \in {release(buf, dev)} :
        /\ buf' = r.buf
        /\ dev' = r.dev
  /\ lastw' = NoWrite
  /\ bh' = Called("none", bh.created)
  /\ UNCHANGED <<ty, host, ubind, rd, tasks, wk, gpuMutex, notBuf>>

\* dispatch tasks of the client's shader that have not run yet
PendingDispatches ==
  Cardinality({i \in 1..Len(tasks) : tasks[i].who = "user"})
    + (IF wk.state = "locked" /\ wk.task.who = "user" THEN 1 ELSE 0)

\* Buffer::readSync(out, readElementCount, readElementOffset) on the host
\* thread; it changes nothing but out, and the behaviour is followed up to it
Read(readElementCount, readElementOffset) ==
  /\ host.pc = "idle"
  /\ rd' = [did |-> TRUE, count |-> readElementCount,
            offset |-> readElementOffset,
            out |-> readSync(buf, dev, ty, readElementCount, readElementOffset,
                             [i \in 1..readElementCount |-> Unset]),
            length |-> buf.length,
            pending |-> PendingDispatches,
            roundTrip |-> bh.seq = "written" /\ readElementCount = lastw.n
                            /\ readElementOffset = 0,
            w |-> lastw]
  /\ host' = [HostIdle EXCEPT !.pc = "done"]
  /\ UNCHANGED <<ty, buf, dev, ubind, lastw, bh, tasks, wk, gpuMutex, notBuf>>

\* the worker pops a dispatch task, which first takes the GPU mutex
LockTask ==
  /\ ~rd.did
  /\ WorkerLock

\* the worker pops the cleanup task of a conversion shader
CleanupTask ==
  /\ ~rd.did
  /\ wk.state = "idle"
  /\ tasks # <<>>
  /\ Head(tasks).kind = "cleanup"
  /\ tasks' = Tail(tasks)
  /\ UNCHANGED <<bufVars, wk, gpuMutex, notBuf>>

\* the dispatch task of the client's shader: the kernel runs on the buffer bound
RunUserTask ==
  /\ ~rd.did
  /\ wk.state = "locked"
  /\ wk.task.who = "user"
  /\ IF ubind # 0 /\ dev[ubind].live
     THEN /\ dev' = [dev EXCEPT ![ubind].words = UserKernel(@)]
          /\ lastw' = IF ubind = buf.handle THEN [lastw EXCEPT !.dirty = TRUE]
                      ELSE lastw
     ELSE UNCHANGED <<dev, lastw>>
  /\ bh' = [bh EXCEPT !.c3 =
              IF wk.task.wr = 0 \/ wk.task.wr # lastw.id \/ @ = "bad" THEN @
              ELSE IF lastw.applied THEN "ok" ELSE "bad"]
  /\ wk' = Idle
  /\ gpuMutex' = "free"
  /\ UNCHANGED <<ty, buf, host, ubind, rd, tasks, notBuf>>

\* the unpack task. Its shader lives until dispatchPacked*to*32 returns and its
\* input until setData releases it; run later, the task works through a
\* dangling this on a released buffer: it either still does the unpack
\* (asIf) or does nothing.
RunConvTask(asIf) ==
  /\ ~rd.did
  /\ wk.state = "locked"
  /\ wk.task.who = "conv"
  /\ LET t == wk.task
         valid == /\ host.pc = "w_dtor"
                  /\ lastw.id = t.wr
                  /\ dev[t.src].live
     IN IF (valid \/ asIf) /\ dev[t.dst].live
        THEN /\ dev' = [dev EXCEPT ![t.dst].words =
                          UnpackKernel(ty, dev[t.src].words, @)]
             /\ lastw' = IF t.wr = lastw.id /\ t.dst = buf.handle
                         THEN [lastw EXCEPT !.applied = TRUE, !.dirty = FALSE]
                         ELSE lastw
        ELSE UNCHANGED <<dev, lastw>>
  /\ wk' = Idle
  /\ gpuMutex' = "free"
  /\ UNCHANGED <<ty, buf, host, ubind, bh, rd, tasks, notBuf>>

Next ==
  \/ \E sizeParam \in 1..(4 * MaxLen) : CreateBuffer(sizeParam)
  \/ \E n \in 1..MaxLen, seed \in Seeds : WriteBeginDirect(n, seed)
  \/ WriteUpload
  \/ \E n \in 1..MaxLen, seed \in Seeds : WriteBeginNarrow(n, seed)
  \/ WriteDispatch
  \/ WriteShaderDtor
  \/ WriteRelease
  \/ UserSetBuffer
  \/ UserDispatch
  \/ ReleaseBuffer
  \/ \E k \in 1..(MaxLen + 1), j \in 0..MaxLen : Read(k, j)
  \/ LockTask
  \/ CleanupTask
  \/ RunUserTask
  \/ \E asIf \in BOOLEAN : RunConvTask(asIf)

Spec == Init /\ [][Next]_vars

\* C18: dispatch(gx, gy, gz) with a dimension <= 0 is a no-op: its task
\* builds no artifact, submits nothing, and leaves pipelineDirty,
\* bindingsDirty, the kernel source and the binding list unchanged, and so
\* does the call that enqueues it.
C18_NonPositiveDimsNoOp ==
  [][/\ (wk.state = "locked" /\ wk'.state = "ran"
          /\ \E i \in 1..3 : wk.task.dims[i] <= 0)
         => /\ shader' = shader
            /\ gh'.live = gh.live
            /\ gh'.last.built = {}
            /\ ~gh'.last.submitted
     /\ (Len(tasks') > Len(tasks) /\ tasks'[Len(tasks')].kind # "cleanup"
          /\ \E i \in 1..3 : tasks'[Len(tasks')].dims[i] <= 0)
         => shader' = shader]_vars

\* the task of a dispatch with a zero dimension has run on a shader that has a
\* kernel and a bound buffer and would otherwise have built its pipeline
C18_Witness ==
  /\ wk.state = "ran"
  /\ wk.task.dims = <<0, 1, 1>>
  /\ alive
  /\ hasKernel(shader)
  /\ BoundSlots(shader) # {}
  /\ shader.pipelineDirty
  /\ shader.shaderModule.isNull
  /\ gh.last.built = {}
  /\ ~gh.last.submitted

\* C19: the task of a dispatch on a shader whose kernel source is empty, or
\* whose binding list has a slot without a buffer below a bound slot, builds
\* nothing and submits nothing, and in the async form still calls the callback.
C19_SkippedOnEmptyOrGap ==
  (wk.state = "ran"
     /\ (shader.shaderCode = ""
           \/ \E i \in 1..Len(shader.buffers) : shader.buffers[i] = 0))
    => /\ gh.last.built = {}
       /\ ~gh.last.submitted
       /\ (wk.task.kind = "dispatchAsync" /\ wk.task.cb)
            => gh.last.events = <<"callback">>

\* C20: the task of every dispatchAsync call with a callback calls it exactly
\* once, on every path, and when the command buffer was submitted, after the
\* submission.
C20_CallbackOnceAfterSubmit ==
  (wk.state = "ran" /\ wk.task.kind = "dispatchAsync" /\ wk.task.cb)
    => gh.last.events \in {<<"callback">>, <<"submit", "callback">>}

\* C21: every pipeline artifact built for a shader is released exactly once,
\* by the rebuild that replaces it or by the cleanup task of the destructor:
\* no kind of artifact is ever released more often than built, and once the
\* shader is destroyed and the worker queue has drained none is left.
C21_ArtifactsReleasedOnce ==
  /\ \A k \in Kinds : gh.live[k] \in {0, 1}
  /\ (~alive /\ tasks = <<>> /\ wk.state = "idle")
       => \A k \in Kinds : gh.live[k] = 0

\* C26: the worker takes a task from the queue only when it runs no other
\* task, and the task it takes is the one enqueued earliest of those waiting,
\* so tasks run one at a time in the order of enqueueing, a shader's cleanup
\* task after its dispatch tasks.
C26_TasksRunInEnqueueOrder ==
  [][Len(tasks') < Len(tasks)
       => /\ wk.state = "idle"
          /\ \E j \in 1..Len(tasks) :
               /\ \A i \in 1..Len(tasks') : tasks'[i].id # tasks[j].id
               /\ \A i \in 1..Len(tasks) : tasks[i].id >= tasks[j].id
               /\ wk'.state = "locked" => wk'.task.id = tasks[j].id]_vars

\* the worker has taken a dispatch task ahead of the cleanup task of the same
\* shader that waited behind it
C26_Witness ==
  /\ wk.state = "locked"
  /\ wk.behind = 1
  /\ wk.task.kind = "dispatch"
  /\ Len(tasks) = 1
  /\ tasks[1].kind = "cleanup"
  /\ wk.task.id < tasks[1].id

\* C39: loadKernelString with an empty string or the current source, and
\* setBuffer with a negative slot, a null handle or the handle already bound at
\* the slot, leave the kernel source, the binding list and both dirty bits as
\* they were; and a shader that has a kernel keeps having one while it lives.
C39_NoChangeCallsChangeNothing ==
  [][/\ ((\E k \in KernelStrings :
              (k = "" \/ k = shader.shaderCode) /\ LoadKernelString(k))
          \/ (\E tag \in Tags, h \in Handles :
                 /\ tag < 0 \/ h = 0
                      \/ (tag < Len(shader.buffers) /\ shader.buffers[tag + 1] = h)
                 /\ SetBuffer(tag, h)))
         => /\ shader'.shaderCode = shader.shaderCode
            /\ shader'.buffers = shader.buffers
            /\ shader'.pipelineDirty = shader.pipelineDirty
            /\ shader'.bindingsDirty = shader.bindingsDirty
     /\ (alive /\ alive' /\ shader.shaderCode # "") => shader'.shaderCode # ""]_vars

\* setBuffer was called with a negative slot, a null handle or the handle
\* already bound, on a shader with a kernel whose cache is clean, and the
\* cache is still clean
C39_Witness ==
  /\ gh.scen = "sameBinding"
  /\ alive
  /\ shader.shaderCode # ""
  /\ BoundSlots(shader) # {}
  /\ ~shader.pipelineDirty
  /\ ~shader.bindingsDirty

\* C34: while the shader lives and no dispatch task is executing, a clear
\* pipelineDirty means the shader module, bind-group layout, pipeline layout
\* and compute pipeline are all non-null, and both bits clear mean the bind
\* group is non-null too; a task in which a build failed leaves the bit that
\* guards the failed artifact set.
C34_CleanBitsMeanBuiltArtifacts ==
  /\ (alive /\ wk.state = "idle" /\ ~shader.pipelineDirty)
       => /\ ~shader.shaderModule.isNull
          /\ ~shader.bindGroupLayout.isNull
          /\ ~shader.pipelineLayout.isNull
          /\ ~shader.computePipeline.isNull
  /\ (alive /\ wk.state = "idle" /\ ~shader.pipelineDirty
         /\ ~shader.bindingsDirty)
       => ~shader.bindGroup.isNull
  /\ (alive /\ wk.state = "ran" /\ gh.last.failed)
       => /\ shader.shaderModule.isNull => shader.pipelineDirty
          /\ shader.bindGroupLayout.isNull => shader.pipelineDirty
          /\ shader.pipelineLayout.isNull => shader.pipelineDirty
          /\ shader.computePipeline.isNull => shader.pipelineDirty
          /\ shader.bindGroup.isNull => shader.bindingsDirty \/ shader.pipelineDirty

\* the creation of the compute pipeline failed in a task that had built the
\* shader module, and pipelineDirty is still set
C34_Witness ==
  /\ alive
  /\ wk.state = "ran"
  /\ gh.last.failed
  /\ ~shader.shaderModule.isNull
  /\ shader.computePipeline.isNull
  /\ shader.pipelineDirty

\* C33: a dispatch task executes only while the shader it was enqueued for has
\* not been destroyed.
C33_NoTaskAfterDestructor ==
  wk.state \in {"locked", "ran"} => alive

\* C29: when a dispatch task has submitted its pass, the slots bound in the
\* bind group are the slots declared in the bind-group layout, which are the
\* slots of the layout the current compute pipeline was built from.
C29_BindGroupMatchesLayout ==
  (wk.state = "ran" /\ gh.last.submitted)
    => /\ shader.bindGroup.slots = shader.bindGroupLayout.slots
       /\ shader.bindGroup.slots = shader.computePipeline.slots

---------------------------------------------------------------------------
(* Claims about the buffer engine, checked under Spec.                     *)

\* the read found the device holding the latest host array, whole and untouched,
\* in a buffer whose logical count is the array's length
\* C32: when a dispatch task executes, the buffers bound to its shader are
\* unreleased: the temporary packed upload buffer of an 8-bit or 16-bit write
\* for the unpack task, the bound buffer for a task of the client's shader.
C32_TaskBuffersUnreleased ==
  wk.state = "locked"
    => /\ wk.task.who = "conv" => dev[wk.task.src].live
       /\ (wk.task.who = "user" /\ ubind # 0) => dev[ubind].live

HoldsArray == rd.w.applied /\ ~rd.w.dirty /\ rd.length = rd.w.n

\* C1: create(n, T); write(a, n); read(out, n, 0) from one host thread yields
\* out equal to a element for element, for every type and every schedule of
\* the worker.
C1_RoundTrip ==
  (rd.did /\ rd.roundTrip) => rd.out = HostArray(ty, rd.w.n, rd.w.seed)

\* C2: every dispatch issued before a synchronous read has run on the worker
\* when the read copies out of the buffer.
C2_DispatchBeforeRead == rd.did => rd.pending = 0

\* C3: when the task of a dispatch that binds the buffer runs, the write
\* issued to the buffer before that dispatch has been applied to it.
C3_WriteBeforeDispatch == bh.c3 # "bad"

\* C4: no write is in progress on the host thread while a dispatch task is
\* inside its critical section on the worker.
C4_WriteExcludesDispatch ==
  ~(host.pc \in {"w_up", "w_disp", "w_dtor", "w_rel"} /\ wk.state = "locked")

\* C8: on a buffer holding array a of logical count n, read(out, k, j) with
\* j + k <= n writes exactly a[j..j+k) to out[0..k), for every type.
C8_ReadReturnsRange ==
  (rd.did /\ HoldsArray /\ rd.offset + rd.count <= rd.w.n)
    => rd.out = [i \in 1..rd.count |-> Elem(ty, rd.w.seed, rd.offset + i)]

C8_Witness ==
  /\ rd.did
  /\ HoldsArray
  /\ ty = "i8"
  /\ rd.offset = 1
  /\ rd.count = 1
  /\ rd.w.n = 2
  /\ rd.out = <<Elem(ty, rd.w.seed, 2)>>

\* C9: read(out, k, j) on a buffer of logical count n leaves out unmodified
\* when j >= n, and when j < n < j + k writes exactly the n - j elements
\* a[j..n) to out[0..n-j) and leaves out[n-j..k) unmodified.
C9_ReadClamps ==
  rd.did =>
    /\ rd.offset >= rd.length => \A i \in 1..rd.count : rd.out[i] = Unset
    /\ (rd.offset < rd.length /\ rd.length < rd.offset + rd.count) =>
         \A i \in 1..rd.count :
           IF i <= rd.length - rd.offset
           THEN /\ rd.out[i] # Unset
                /\ HoldsArray => rd.out[i] = Elem(ty, rd.w.seed, rd.offset + i)
           ELSE rd.out[i] = Unset

C9_Witness ==
  /\ rd.did
  /\ HoldsArray
  /\ rd.length = 2
  /\ rd.offset = 1
  /\ rd.count = 2
  /\ rd.out = <<Elem(ty, rd.w.seed, 2), Unset>>

---------------------------------------------------------------------------
(* The life of Buffer objects: one host thread calling createBuffer,       *)
(* setData, readSync, setBuffer, the move operations, release, the         *)
(* destructor and mgpuDestroyBuffer on two Buffer objects.                 *)

MaxLifeOps == 3     \* calls on the Buffer objects

\* the sizeParam arguments of createBuffer, zero included
LifeSizes(T) == {0} \cup CreateSizes(T)

\* ~Buffer of the function-local initialPackedUploadBuffer, after the release()
\* that setData may have called on it already
TempGone(t, d) == Only({release(r.buf, r.dev).dev : r \in {release(t, d)}})

\* Buffer::setData of n elements of type T, as far as the calling thread runs
\* it: the early returns, ensureBuffer, the upload, and for 8-bit and 16-bit
\* types the temporary buffer. The unpack task an 8-bit or 16-bit write
\* enqueues runs on the worker and rewrites only the words of the buffer.
setDataUsing(Ensure(_, _, _, _), b, d, n, T, seed) ==
  IF Class(T) \in {"direct", "wide"}
  THEN IF T = "f32" /\ b.handle = 0 THEN [buf |-> b, dev |-> d]
       ELSE Only({IF ~e.ok \/ n = 0 \/ (T = "f32" /\ 4 * n > e.buf.size)
                  THEN [buf |-> e.buf, dev |-> e.dev]
                  ELSE [buf |-> e.buf,
                        dev |-> toGPU(e.dev, e.buf.handle,
                                      UploadWords(T, HostArray(T, n, seed)))] :
                  e \in {Ensure(b, d, n, T)}})
  ELSE Only({IF t.buf.handle = 0 THEN [buf |-> b, dev |-> d]
             ELSE Only({[buf |-> e.buf, dev |-> TempGone(t.buf, e.dev)] :
                        e \in {Ensure(b, toGPU(t.dev, t.buf.handle,
                                   UploadWords(T, HostArray(T, n, seed))), n, T)}}) :
             t \in {createBuffer(NullBuf, d,
                       4 * ((n + PackingRatio(T) - 1) \div PackingRatio(T)),
                       InternalType(T))}})

setData(b, d, n, T, seed) == setDataUsing(ensureBuffer, b, d, n, T, seed)

\* setData when the creation its ensureBuffer call asks for ends in outcome
setDataOn(b, d, n, T, seed, outcome) ==
  setDataUsing(LAMBDA eb, ed, en, eT : ensureBufferOn(eb, ed, en, eT, outcome),
               b, d, n, T, seed)

\* Buffer::Buffer(Buffer &&other): the fields this takes, and what is left
MovedFrom(b) == [b EXCEPT !.handle = 0, !.size = 0, !.length = 0]

ObjCanCall(o) == objs[o].st = "live" /\ lh.nops < MaxLifeOps

WordsOf(d, b) == IF b.handle = 0 THEN <<>> ELSE d[b.handle].words

\* the history after a call op(o, T, n) that leaves object o as b
Noted(op, o, T, n, b) ==
  [lh EXCEPT !.nops = @ + 1,
             !.call = [op |-> op, o |-> o, T |-> T, n |-> n],
             !.before = objs[o].b,
             !.words = WordsOf(ldev, objs[o].b),
             !.reqWas = lh.req[o],
             !.req[o] = IF b = objs[o].b THEN @
                        ELSE IF b.handle = 0 THEN "unknown" ELSE T,
             !.zero[o] = IF op = "create" THEN n = 0
                         ELSE IF op \in {"write", "read", "bind"} THEN @
                         ELSE FALSE,
             !.released[o] = IF op \in {"release", "dtor", "destroy", "assign"}
                             THEN TRUE ELSE @]

notLife == <<pipeVars, convVars, bufVars, ctxVars>>

\* createBuffer(sizeParam, T) on object o
ObjCreateBuffer(o, sizeParam, T) ==
  /\ ObjCanCall(o)
  /\ sizeParam \in LifeSizes(T)
  /\ \E c \in {createBuffer(objs[o].b, ldev, sizeParam, T)} :
       /\ objs' = [objs EXCEPT ![o].b = c.buf]
       /\ ldev' = c.dev
       /\ lh' = Noted("create", o, T, sizeParam, c.buf)
  /\ UNCHANGED notLife

\* setData of n elements of type T on object o, the creation of a device
\* buffer for the object, if the call comes to one, ending in outcome
ObjSetData(o, n, T, seed, outcome) ==
  /\ ObjCanCall(o)
  /\ \E c \in {IF outcome = "created"
                THEN setData(objs[o].b, ldev, n, T, seed)
                ELSE setDataOn(objs[o].b, ldev, n, T, seed, outcome)} :
       /\ objs' = [objs EXCEPT ![o].b = c.buf]
       /\ ldev' = c.dev
       /\ lh' = [Noted("write", o, T, n, c.buf) EXCEPT !.creation = outcome]
  /\ UNCHANGED notLife

\* readSync(out, 1, 0) of type T on object o, out being a one-element array or
\* (outputGiven = FALSE) nullptr: it changes nothing but out.  lh.out is what
\* the call has stored through the pointer.
ObjReadSync(o, T, outputGiven) ==
  /\ ObjCanCall(o)
  /\ lh' = [Noted("read", o, T, 1, objs[o].b) EXCEPT
              !.given = outputGiven,
              !.out = IF validateReadPreconditions(objs[o].b, outputGiven)
                      THEN readSync(objs[o].b, ldev, T, 1, 0, <<Unset>>)
                      ELSE <<Unset>>]
  /\ UNCHANGED <<objs, ldev, notLife>>

\* setBuffer(0, o) on the client's shader
ObjSetBuffer(o) ==
  /\ ObjCanCall(o)
  /\ shader' = setBuffer(shader, 0, objs[o].b.handle)
  /\ lh' = Noted("bind", o, "unknown", 0, objs[o].b)
  /\ UNCHANGED <<objs, ldev, alive, tasks, wk, gpuMutex, gh, convVars, bufVars,
                 ctxVars>>

\* Buffer::Buffer(Buffer &&other): object o is constructed from object p
ObjMoveConstruct(o, p) ==
  /\ objs[o].st = "none"
  /\ objs[p].st = "live"
  /\ lh.nops < MaxLifeOps
  /\ objs' = [objs EXCEPT ![o] = [st |-> "live", b |-> objs[p].b],
                          ![p].b = MovedFrom(@)]
  /\ lh' = [lh EXCEPT !.nops = @ + 1,
                      !.call = [op |-> "move", o |-> o, T |-> "unknown", n |-> 0],
                      !.before = objs[p].b,
                      !.words = WordsOf(ldev, objs[p].b),
                      !.req[o] = lh.req[p], !.req[p] = "unknown",
                      !.zero[o] = lh.zero[p]]
  /\ UNCHANGED <<ldev, notLife>>

\* Buffer::operator=(Buffer &&other): object p is moved into object o
ObjMoveAssign(o, p) ==
  /\ ObjCanCall(o)
  /\ objs[p].st = "live"
  /\ IF o = p
     THEN /\ lh' = Noted("selfassign", o, "unknown", 0, objs[o].b)
          /\ UNCHANGED <<objs, ldev>>
     ELSE /\ ldev' = release(objs[o].b, ldev).dev
          /\ objs' = [objs EXCEPT ![o].b = objs[p].b, ![p].b = MovedFrom(@)]
          /\ lh' = [Noted("assign", o, "unknown", 0, objs[p].b) EXCEPT
                      !.req[o] = lh.req[p], !.req[p] = "unknown",
                      !.zero[o] = lh.zero[p]]
  /\ UNCHANGED notLife

\* Buffer::release on object o
ObjRelease(o) ==
  /\ ObjCanCall(o)
  /\ \E r \in {release(objs[o].b, ldev)} :
       /\ objs' = [objs EXCEPT ![o].b = r.buf]
       /\ ldev' = r.dev
       /\ lh' = Noted("release", o, "unknown", 0, r.buf)
  /\ UNCHANGED notLife

\* Buffer::~Buffer on object o
ObjDestructor(o) ==
  /\ ObjCanCall(o)
  /\ \E r \in {release(objs[o].b, ldev)} :
       /\ objs' = [objs EXCEPT ![o] = [st |-> "dead", b |-> r.buf]]
       /\ ldev' = r.dev
       /\ lh' = Noted("dtor", o, "unknown", 0, r.buf)
  /\ UNCHANGED notLife

\* mgpuDestroyBuffer on object o: release(), then delete runs ~Buffer
mgpuDestroyBuffer(o) ==
  /\ ObjCanCall(o)
  /\ \E r \in {release(objs[o].b, ldev)} :
       \E r2 \in {release(r.buf, r.dev)} :
         /\ objs' = [objs EXCEPT ![o] = [st |-> "dead", b |-> r2.buf]]
         /\ ldev' = r2.dev
         /\ lh' = Noted("destroy", o, "unknown", 0, r2.buf)
  /\ UNCHANGED notLife

InitLife ==
  /\ LifeAtConstruction
  /\ CtxAtConstruction
  /\ PipeAtConstruction
  /\ cv = NoConv
  /\ BufAtConstruction("f32")

NextLife ==
  \/ \E o \in {1, 2}, sizeParam \in 0..(4 * MaxLen), T \in Types :
       ObjCreateBuffer(o, sizeParam, T)
  \/ \E o \in {1, 2}, n \in 0..MaxLen, T \in Types, c \in CreateOutcomes :
       ObjSetData(o, n, T, 1, c)
  \/ \E o \in {1, 2}, T \in Types, g \in BOOLEAN : ObjReadSync(o, T, g)
  \/ \E o \in {1, 2} : ObjSetBuffer(o)
  \/ \E o \in {1, 2}, p \in {1, 2} : ObjMoveConstruct(o, p)
  \/ \E o \in {1, 2}, p \in {1, 2} : ObjMoveAssign(o, p)
  \/ \E o \in {1, 2} : ObjRelease(o)
  \/ \E o \in {1, 2} : ObjDestructor(o)
  \/ \E o \in {1, 2} : mgpuDestroyBuffer(o)

SpecLife == InitLife /\ [][NextLife]_vars

---------------------------------------------------------------------------
(* Claims about the life of Buffer objects, checked under SpecLife.        *)

\* the bytes count elements of logical type T need
required_bytes(T, count) ==
  CASE Class(T) = "n8" -> ((count + 3) \div 4) * 4
    [] Class(T) = "n16" -> ((count + 1) \div 2) * 4
    [] Class(T) = "wide" -> count * 8
    [] OTHER -> count * 4

\* C11: every Buffer object with a non-null device handle has a physical size
\* of at least required_bytes(type, logical count), a multiple of 4 and at
\* least 4, after createBuffer and after any writes, moves and reads.
C11_PhysicalSizeCovers ==
  \A o \in {1, 2} :
    objs[o].b.handle # 0 =>
      /\ objs[o].b.size >= required_bytes(lh.req[o], objs[o].b.length)
      /\ objs[o].b.size % 4 = 0
      /\ objs[o].b.size >= 4
      /\ objs[o].b.size = 4 * Len(ldev[objs[o].b.handle].words)

\* a write of more elements than the buffer held has given the object a
\* larger buffer
C11_Witness ==
  /\ lh.call.op = "write"
  /\ lh.before.handle # 0
  /\ objs[lh.call.o].b.handle \notin {0, lh.before.handle}
  /\ objs[lh.call.o].b.length > lh.before.length
  /\ objs[lh.call.o].b.size > lh.before.size

\* C13: every Buffer object with a non-null device handle has isPacked true
\* exactly when its requested logical type is one of i8, u8, i16, u16, f64,
\* i64, u64.
C13_PackedIffNeedsPacking ==
  \A o \in {1, 2} :
    objs[o].b.handle # 0 => (objs[o].b.isPacked <=> isPackedType(lh.req[o]))

\* a buffer of a packed type was written with a direct type and is direct now
C13_Witness ==
  /\ lh.call.op = "write"
  /\ lh.before.handle # 0
  /\ lh.before.isPacked
  /\ lh.call.T = "i32"
  /\ objs[lh.call.o].b.handle # 0
  /\ ~objs[lh.call.o].b.isPacked

\* C12: createBuffer(count, T) with count > 0 records a logical element count
\* equal to count for every logical type T, f32, i32 and u32 included.
C12_CreateRecordsCount ==
  (lh.call.op = "create" /\ lh.call.n > 0)
    => objs[lh.call.o].b.length = lh.call.n

\* C14: a Buffer created with count = 0 has a null handle and physical size 0
\* and keeps them through every later write, read and setBuffer.
C14_ZeroCountStaysEmpty ==
  \A o \in {1, 2} :
    lh.zero[o] => (objs[o].b.handle = 0 /\ objs[o].b.size = 0)

\* C15: a write or read on a Buffer that release has run on, and that holds
\* no device buffer, leaves it without a device buffer.
C15_ReleasedStaysReleased ==
  (lh.call.op \in {"write", "read"} /\ lh.released[lh.call.o]
     /\ lh.before.handle = 0)
    => objs[lh.call.o].b.handle = 0

\* C16: every handle the device returned is released at most once, over any
\* sequence of createBuffer, writes, moves, release, the destructor and
\* mgpuDestroyBuffer, and release on a Buffer without a device buffer changes
\* nothing.
C16_NoDoubleRelease ==
  /\ \A h \in 1..Len(ldev) : ldev[h].rel <= 1
  /\ (lh.call.op = "release" /\ lh.before.handle = 0)
       => objs[lh.call.o].b = lh.before

\* mgpuDestroyBuffer ran, as the third call, on a Buffer holding a device
\* buffer: release() and then ~Buffer, and the handle was released once
C16_Witness ==
  /\ lh.call.op = "destroy"
  /\ lh.before.handle # 0
  /\ ldev[lh.before.handle].rel = 1
  /\ lh.nops = 3

\* C17: a write of count elements to an allocated Buffer whose physical size is
\* smaller than required_bytes(type, count) leaves the Buffer's handle, size,
\* logical count, type and contents as they were.
C17_FailedWriteChangesNothing ==
  (lh.call.op = "write" /\ lh.before.handle # 0
     /\ lh.before.size < required_bytes(lh.call.T, lh.call.n))
    => /\ objs[lh.call.o].b = lh.before
       /\ WordsOf(ldev, objs[lh.call.o].b) = lh.words

\* C30: a write of k <= n elements of type T to a Buffer created with type T
\* and holding a logical count of n leaves the logical count at n.
C30_WriteKeepsLogicalCount ==
  (lh.call.op = "write" /\ lh.before.handle # 0 /\ lh.reqWas = lh.call.T
     /\ lh.call.n <= lh.before.length)
    => objs[lh.call.o].b.length = lh.before.length

\* C35: a write of k <= n elements of type T to a Buffer created with type T
\* and holding a logical count of n keeps the Buffer's device handle, and the
\* handle is not released, whatever the type T.
C35_WriteKeepsHandle ==
  (lh.call.op = "write" /\ lh.before.handle # 0 /\ lh.reqWas = lh.call.T
     /\ lh.call.n <= lh.before.length)
    => /\ objs[lh.call.o].b.handle = lh.before.handle
       /\ ldev[lh.before.handle].live

\* C37: a synchronous read stores nothing in the output array when the Buffer
\* has no device handle, when the output pointer is null, or when the pair
\* (internal type, packed flag) the read type expects differs from the pair
\* the Buffer holds.
C37_RejectedReadLeavesOut ==
  (/\ lh.call.op = "read"
   /\ \/ lh.before.handle = 0
      \/ ~lh.given
      \/ lh.before.bufferType # InternalType(lh.call.T)
      \/ lh.before.isPacked # (Class(lh.call.T) # "direct"))
    => lh.out = <<Unset>>

\* u8 was read from a Buffer created as u32 and written with one element, and
\* the output array is as it was
C37_Witness ==
  /\ lh.call.op = "read"
  /\ lh.call.T = "u8"
  /\ lh.given
  /\ lh.before.handle # 0
  /\ lh.before.bufferType = "u32"
  /\ ~lh.before.isPacked
  /\ lh.words = <<Elem("u32", 1, 1)>>
  /\ lh.out = <<Unset>>

\* C36: when a write has to recreate the Buffer's device buffer and the
\* creation of the new one fails, the
\* Buffer keeps the device handle and physical size it had, and the handle it
\* had is still owned by the Buffer or has been released.
C36_FailedRecreateKeepsBuffer ==
  (/\ lh.call.op = "write"
   /\ lh.creation # "created"
   /\ lh.before.handle # 0
   /\ lh.call.n > 0
   /\ ~(getOriginalDataType(lh.before) = lh.call.T
          /\ lh.before.length >= lh.call.n))
    => /\ objs[lh.call.o].b.handle = lh.before.handle
       /\ objs[lh.call.o].b.size = lh.before.size
       /\ \/ objs[lh.call.o].b.handle = lh.before.handle
          \/ ~ldev[lh.before.handle].live

---------------------------------------------------------------------------
(* The device context of the MGPU: initializeContext, its async form,      *)
(* destroyContext, the device-lost callback, the handle accessors, and the *)
(* detached thread of readAsync.                                           *)

MaxCtxOps == 4      \* calls on the MGPU

\* gpu::createContext, granted or not: the n-th context, or an exception
createContext(n, ok) ==
  IF ok THEN [id |-> n, initialized |-> TRUE] ELSE NullCtx

initializeContextUnflagged(c, created, ok) ==
  IF ok THEN [ctx |-> [id |-> created + 1, initialized |-> FALSE],
              created |-> created + 1,
              destroyed |-> IF c.id # 0 THEN {c.id} ELSE {},
              thrown |-> FALSE]
  ELSE [ctx |-> c, created |-> created, destroyed |-> {}, thrown |-> FALSE]

\* MGPU::initializeContext: ctx takes the new context and the unique_ptr
\* destroys the one it held; the exception of a failed creation is caught
\* and logged, so nothing is thrown to the caller
initializeContext(c, created, ok) ==
  IF ok THEN [ctx |-> createContext(created + 1, ok), created |-> created + 1,
              destroyed |-> IF c.id # 0 THEN {c.id} ELSE {},
              thrown |-> FALSE]
  ELSE [ctx |-> c, created |-> created, destroyed |-> {}, thrown |-> FALSE]

\* MGPU::destroyContext
destroyContext(c) ==
  IF c.id # 0 THEN [ctx |-> NullCtx, destroyed |-> {c.id}]
  ELSE [ctx |-> c, destroyed |-> {}]

\* the device-lost handler registered at device creation
deviceLost(c) == [c EXCEPT !.initialized = FALSE]

isDeviceValid(c) == c.id # 0 /\ c.initialized

\* MGPU::ensureDeviceValid: tear down and initialize again unless valid
ensureDeviceValid(c, created, ok) ==
  IF isDeviceValid(c) THEN [ctx |-> c, created |-> created, destroyed |-> {}]
  ELSE Only({[ctx |-> i.ctx, created |-> i.created,
              destroyed |-> d.destroyed \cup i.destroyed] :
             i \in {initializeContext(d.ctx, created, ok) :
                    d \in {destroyContext(c)}},
             d \in {destroyContext(c)}})

\* MGPU::getDevice: the handle of the context in place after ensureDeviceValid
getDevice(c) == IF isDeviceValid(c) THEN c.id ELSE 0

CtxCanCall == ch.nops < MaxCtxOps

\* the history after a call that leaves the context as r.ctx
CtxNoted(op, ok, r, ret) ==
  [ch EXCEPT !.nops = @ + 1,
             !.created = r.created,
             !.destroyed = @ \cup r.destroyed,
             !.call = [op |-> op, ok |-> ok, before |-> ctx, ret |-> ret]]

notCtx == <<pipeVars, convVars, bufVars, lifeVars>>

\* mgpuInitializeContext: the caller is given 1 when the call throws, else 0
InitializeContext(ok) ==
  /\ CtxCanCall
  /\ \E r \in {initializeContext(ctx, ch.created, ok)} :
       /\ ctx' = r.ctx
       /\ ch' = CtxNoted("init", ok, r, IF r.thrown THEN 1 ELSE 0)
  /\ UNCHANGED notCtx

\* mgpuDestroyContext
DestroyContext ==
  /\ CtxCanCall
  /\ \E d \in {destroyContext(ctx)} :
       /\ ctx' = d.ctx
       /\ ch' = CtxNoted("destroy", TRUE,
                         [ctx |-> d.ctx, created |-> ch.created,
                          destroyed |-> d.destroyed], 0)
  /\ UNCHANGED notCtx

\* the driver reports the device of the context in place as lost
DeviceLostCallback ==
  /\ CtxCanCall
  /\ isDeviceValid(ctx)
  /\ ctx' = deviceLost(ctx)
  /\ ch' = CtxNoted("lost", TRUE,
                    [ctx |-> ctx', created |-> ch.created, destroyed |-> {}], 0)
  /\ UNCHANGED notCtx

\* a handle accessor: getDevice, getQueue or getInstance
GetDevice(ok) ==
  /\ CtxCanCall
  /\ \E r \in {ensureDeviceValid(ctx, ch.created, ok)} :
       /\ ctx' = r.ctx
       /\ ch' = CtxNoted("get", ok, r, getDevice(r.ctx))
  /\ UNCHANGED notCtx

ReadOutcomes == {"done", "skipped", "throws"}

NoThreadRunning == ch.thread.kind = "none"

\* mgpuInitializeContextAsync: initializeContextAsync starts a detached thread
InitializeContextAsync(cb) ==
  /\ CtxCanCall
  /\ NoThreadRunning
  /\ ch' = [ch EXCEPT !.nops = @ + 1,
                      !.thread = [kind |-> "init", cb |-> cb],
                      !.call = [op |-> "initAsync", ok |-> TRUE,
                                before |-> ctx, ret |-> 0]]
  /\ UNCHANGED <<ctx, notCtx>>

\* the thread of initializeContextAsync: the callback runs only with a context
InitThread(ok) ==
  /\ ch.thread.kind = "init"
  /\ \E r \in {initializeContext(ctx, ch.created, ok)} :
       /\ ctx' = r.ctx
       /\ ch' = [ch EXCEPT !.created = r.created,
                           !.destroyed = @ \cup r.destroyed,
                           !.thread = NoThread,
                           !.done = [kind |-> "init", cb |-> ch.thread.cb,
                                     failed |-> ~ok,
                                     called |-> IF r.ctx.id # 0 /\ ch.thread.cb
                                                THEN 1 ELSE 0]]
  /\ UNCHANGED notCtx

\* mgpuReadBufferAsyncInt8: readAsync starts a detached thread when the buffer,
\* the output and the callback are all given; otherwise the call only logs
ReadBufferAsync(bufferGiven, cb) ==
  /\ CtxCanCall
  /\ NoThreadRunning
  /\ ch' = [ch EXCEPT !.nops = @ + 1,
                      !.thread = IF bufferGiven /\ cb
                                 THEN [kind |-> "read", cb |-> cb] ELSE NoThread,
                      !.done = IF bufferGiven /\ cb THEN @
                               ELSE [kind |-> "read", cb |-> cb,
                                     failed |-> TRUE, called |-> 0],
                      !.call = [op |-> "readAsync", ok |-> bufferGiven,
                                before |-> ctx, ret |-> 0]]
  /\ UNCHANGED <<ctx, notCtx>>

\* the thread of Buffer::readAsync: readSync, then the callback; an exception
\* of readSync is caught after the callback's place
ReadThread(outcome) ==
  /\ ch.thread.kind = "read"
  /\ ch' = [ch EXCEPT !.thread = NoThread,
                      !.done = [kind |-> "read", cb |-> ch.thread.cb,
                                failed |-> outcome # "done",
                                called |-> IF outcome # "throws" /\ ch.thread.cb
                                           THEN 1 ELSE 0]]
  /\ UNCHANGED <<ctx, notCtx>>

InitCtx ==
  /\ CtxAtConstruction
  /\ PipeAtConstruction
  /\ cv = NoConv
  /\ BufAtConstruction("f32")
  /\ LifeAtConstruction

NextCtx ==
  \/ \E ok \in BOOLEAN : InitializeContext(ok)
  \/ \E cb \in BOOLEAN : InitializeContextAsync(cb)
  \/ \E ok \in BOOLEAN : InitThread(ok)
  \/ \E g \in BOOLEAN, cb \in BOOLEAN : ReadBufferAsync(g, cb)
  \/ \E outcome \in ReadOutcomes : ReadThread(outcome)
  \/ DestroyContext
  \/ DeviceLostCallback
  \/ \E ok \in BOOLEAN : GetDevice(ok)

SpecCtx == InitCtx /\ [][NextCtx]_vars

Ready(c) == c.id # 0 /\ c.initialized
Lost(c) == c.id # 0 /\ ~c.initialized

\* C22: initializeContext on an initialized context leaves that context in
\* place: no second context is created and the existing one is not destroyed.
C22_InitializeIdempotent ==
  (ch.call.op = "init" /\ Ready(ch.call.before) /\ NoThreadRunning
     /\ ch.done.kind = "none")
    => /\ ctx = ch.call.before
       /\ ch.call.before.id \notin ch.destroyed

\* C23: a failed context creation is reported to the caller of initialize and
\* leaves the context absent.
C23_FailedInitReportsAndLeavesNone ==
  (ch.call.op = "init" /\ ~ch.call.ok)
    => /\ ch.call.ret # 0
       /\ ctx = NullCtx

\* C24: an asynchronous initialize or read that was given a callback and has
\* ended has invoked the callback exactly once, also when it failed.
C24_CallbackExactlyOnce ==
  (ch.done.kind # "none" /\ ch.done.cb) => ch.done.called = 1

---------------------------------------------------------------------------
(* The dispatchers of the conversion kernels and their workgroup limits.   *)

WorkgroupSize == 256
MAX_WORKGROUPS_X == 65535
MAX_TOTAL_INVOCATIONS == WorkgroupSize * MAX_WORKGROUPS_X

Dispatchers ==
  {"dispatchPackedI8toI32", "dispatchI32toPackedI8",
   "dispatchPackedU8toU32", "dispatchU32toPackedU8",
   "dispatchPackedI16toI32", "dispatchI32toPackedI16",
   "dispatchPackedU16toU32", "dispatchU32toPackedU16",
   "dispatchExpandF64toU32x2", "dispatchCombineU32x2toF64"}

\* logical elements per element the dispatcher counts workgroups for
ElementsPerInvocation(k) ==
  IF k \in {"dispatchPackedI8toI32", "dispatchI32toPackedI8",
            "dispatchPackedU8toU32", "dispatchU32toPackedU8"} THEN 4
  ELSE IF k \in {"dispatchExpandF64toU32x2", "dispatchCombineU32x2toF64"} THEN 1
  ELSE 2

\* numPackedElements (numLogicalElements for the 64-bit kernels)
numDispatchElements(k, numLogicalElements) ==
  (numLogicalElements + ElementsPerInvocation(k) - 1)
    \div ElementsPerInvocation(k)

calculateGroups(numElements, workgroupSize) ==
  IF workgroupSize = 0 THEN 0
  ELSE (numElements + workgroupSize - 1) \div workgroupSize

validateWorkgroupDispatchSafety(numElements, workgroupSize) ==
  IF workgroupSize = 0 THEN FALSE
  ELSE LET numWorkgroups == (numElements + workgroupSize - 1) \div workgroupSize
       IN  /\ ~(numWorkgroups > MAX_WORKGROUPS_X)
           /\ ~(numWorkgroups * workgroupSize > MAX_TOTAL_INVOCATIONS)

\* the dispatchers that call validateWorkgroupDispatchSafety
ValidatesWorkgroups(k) ==
  k \in {"dispatchPackedI8toI32", "dispatchPackedU8toU32"}

\* a dispatcher on buffers of numLogicalElements that pass its type and size
\* checks: the X workgroup count it hands to shader.dispatch, 0 when it returns
\* before
dispatchConversion(k, numLogicalElements) ==
  IF numLogicalElements = 0 THEN 0
  ELSE IF ValidatesWorkgroups(k)
          /\ ~validateWorkgroupDispatchSafety(
                 numDispatchElements(k, numLogicalElements), WorkgroupSize)
  THEN 0
  ELSE calculateGroups(numDispatchElements(k, numLogicalElements),
                       WorkgroupSize)

\* logical lengths on both sides of the limits, for each packing ratio
ConvLengths ==
  {0, 1, 5, MAX_TOTAL_INVOCATIONS, MAX_TOTAL_INVOCATIONS + 1,
   2 * MAX_TOTAL_INVOCATIONS, 2 * MAX_TOTAL_INVOCATIONS + 1,
   4 * MAX_TOTAL_INVOCATIONS, 4 * MAX_TOTAL_INVOCATIONS + 1,
   4 * MAX_TOTAL_INVOCATIONS + 4 * WorkgroupSize + 1}

InitDisp ==
  /\ \E k \in Dispatchers, n \in ConvLengths :
       cv = [kernel |-> k, length |-> n, stage |-> "in", groupsX |-> 0]
  /\ PipeAtConstruction
  /\ BufAtConstruction("i8")
  /\ LifeAtConstruction
  /\ CtxAtConstruction

\* the dispatcher cv.kernel is called
DispatchConversion ==
  /\ cv.stage = "in"
  /\ cv' = [cv EXCEPT !.stage = "called",
                      !.groupsX = dispatchConversion(cv.kernel, cv.length)]
  /\ UNCHANGED notConv

NextDisp == DispatchConversion

SpecDisp == InitDisp /\ [][NextDisp]_vars

\* C27: a conversion dispatch whose X workgroup count exceeds 65535, or whose
\* invocations exceed 256 x 65535, enqueues no dispatch, for every dispatcher.
C27_TooLargeNotDispatched ==
  (cv.stage = "called"
     /\ \E groups \in {(numDispatchElements(cv.kernel, cv.length) + 255) \div 256} :
          groups > 65535 \/ groups * 256 > 256 * 65535)
    => cv.groupsX = 0

---------------------------------------------------------------------------
(* The pack kernels, and a pack followed by an unpack of the same array.   *)

MaxPackLen == 5     \* logical elements of the array packed

NarrowTypes == {"i8", "u8", "i16", "u16"}

\* values of the narrow type at the ends and in the middle of its range
PackValues(T) ==
  CASE T = "i8" -> {-128, -1, 1, 127}
    [] T = "u8" -> {0, 1, 128, 255}
    [] T = "i16" -> {-32768, -1, 256, 32767}
    [] OTHER -> {0, 255, 32768, 65535}

\* the i32 or u32 word that holds value v in the unpacked buffer
ValueWord(v) == BytesOf(v, 4)

RECURSIVE BitOr(_, _)
\* a | b on bytes
BitOr(a, b) ==
  IF a = 0 THEN b
  ELSE IF b = 0 THEN a
  ELSE 2 * BitOr(a \div 2, b \div 2) + (IF a % 2 = 1 \/ b % 2 = 1 THEN 1 ELSE 0)

\* a | b on words
OrWord(a, b) == [i \in 1..4 |-> BitOr(a[i], b[i])]

\* (val & 0xFF) << 8l, (val & 0xFFFF) << 16l
PackLane(T, val, l) == ShiftLeft(MaskLow(val, ElemSize(T)), ElemSize(T) * l)

RECURSIVE PackLanes(_, _, _, _)
\* packed_result after the lanes from l on: each lane is read only when its
\* index is below arrayLength(&unpacked_input)
PackLanes(T, unpacked_input, packed_idx, l) ==
  IF l >= PackingRatio(T) THEN ZeroWord
  ELSE OrWord(IF packed_idx * PackingRatio(T) + l < Len(unpacked_input)
              THEN PackLane(T, unpacked_input[packed_idx * PackingRatio(T) + l + 1], l)
              ELSE ZeroWord,
              PackLanes(T, unpacked_input, packed_idx, l + 1))

\* one run of a pack kernel over its two bindings
PackKernel(T, unpacked_input, packed_output) ==
  [w \in 1..Len(packed_output) |-> PackLanes(T, unpacked_input, w - 1, 0)]

\* what a word of a device buffer holds that no kernel of this run has written
Stale == <<170, 170, 170, 170>>

\* an array x of n elements in an unpacked buffer of n words, or of n + 1
\* words when an earlier write of fewer elements has lowered the logical
\* length of a reused buffer; an empty packed buffer and a second unpacked
\* buffer of the same size
InitPack ==
  /\ \E T \in NarrowTypes, n \in 1..MaxPackLen, slack \in {0, 1} :
       \E x \in [1..n -> PackValues(T)] :
         cv = [ty |-> T, n |-> n, x |-> x, stage |-> "in",
               unpacked_input |->
                 [i \in 1..(n + slack) |->
                    IF i <= n THEN ValueWord(x[i]) ELSE Stale],
               packed |->
                 [w \in 1..((n + PackingRatio(T) - 1) \div PackingRatio(T)) |->
                    Stale],
               unpacked_output |-> [i \in 1..(n + slack) |-> Stale]]
  /\ PipeAtConstruction
  /\ BufAtConstruction("i8")
  /\ LifeAtConstruction
  /\ CtxAtConstruction

\* dispatchI32toPackedI8 and its 16-bit and unsigned forms run their kernel
PackRun ==
  /\ cv.stage = "in"
  /\ cv' = [cv EXCEPT !.stage = "packed",
                      !.packed = PackKernel(cv.ty, cv.unpacked_input, @)]
  /\ UNCHANGED notConv

\* dispatchPackedI8toI32 and its 16-bit and unsigned forms run their kernel
UnpackRun ==
  /\ cv.stage = "packed"
  /\ cv' = [cv EXCEPT !.stage = "unpacked",
                      !.unpacked_output = UnpackKernel(cv.ty, cv.packed, @)]
  /\ UNCHANGED notConv

NextPack == PackRun \/ UnpackRun

SpecPack == InitPack /\ [][NextPack]_vars

\* C28: packing an array of n narrow values puts element i in word i div r at
\* lane i mod r with zero bits in the lanes past n, and unpacking the result
\* gives the array back and writes no output index >= n (r = 4 for 8-bit
\* types, 2 for 16-bit types).
C28_PackUnpackRoundTrip ==
  /\ cv.stage \in {"packed", "unpacked"}
       => \A w \in 1..Len(cv.packed), p \in 1..4 :
            \E e \in {(w - 1) * PackingRatio(cv.ty)
                        + ((p - 1) \div ElemSize(cv.ty)) + 1} :
              cv.packed[w][p] =
                IF e <= cv.n
                THEN ValueWord(cv.x[e])[((p - 1) % ElemSize(cv.ty)) + 1]
                ELSE 0
  /\ cv.stage = "unpacked"
       => /\ \A i \in 1..cv.n : cv.unpacked_output[i] = ValueWord(cv.x[i])
          /\ \A i \in (cv.n + 1)..Len(cv.unpacked_output) :
               cv.unpacked_output[i] = Stale

\* C28 on buffers whose word count is the logical length
C28_ExactBuffers ==
  Len(cv.unpacked_input) = cv.n => C28_PackUnpackRoundTrip

---------------------------------------------------------------------------
(* dispatchAsync with callbacks that call back into the shader: the task   *)
(* body and the callback are separate steps of the worker.                 *)

\* what the callback given to dispatchAsync does: nothing that touches the
\* MGPU, or one setBuffer(tag, buffer) call on a shader of the same MGPU
Callbacks ==
  {[kind |-> k, tag |-> 0, handle |-> 0] : k \in {"none", "plain"}}
    \cup {[kind |-> "setBuffer", tag |-> t, handle |-> h] :
            t \in {-1, 0}, h \in {0, 1}}

\* std::mutex::lock by the thread that owns the mutex is undefined: the
\* thread blocks for ever, or lock throws std::system_error
RelockOutcomes == {"stuck", "threw"}

CbDispatchAsync(dims, cb) == Enqueue("dispatchAsync", dims, cb)

\* the closure of dispatchAsync up to the callback() call it reaches
CbWorkerBody(fail) ==
  /\ wk.state = "locked"
  /\ \E o \in {dispatchAsyncTask(shader, wk.task.dims,
                                 wk.task.cb.kind # "none", fail)} :
        /\ shader' = o.sh
        /\ gh' = Record(o, wk.task)
        /\ wk' = [wk EXCEPT !.state = IF o.called THEN "calling" ELSE "ran"]
  /\ UNCHANGED <<alive, tasks, gpuMutex, notPipe>>

\* callback() runs inside the closure, whose lock_guard is still in scope
CallbackRuns(outcome) ==
  /\ wk.state = "calling"
  /\ \E cb \in {wk.task.cb} :
       IF cb.kind = "setBuffer" /\ setBufferLocks(cb.tag, cb.handle)
       THEN /\ wk' = [wk EXCEPT !.state = outcome]
            /\ gpuMutex' = IF outcome = "threw" THEN "free" ELSE gpuMutex
            /\ shader' = shader
       ELSE /\ wk' = [wk EXCEPT !.state = "ran"]
            /\ gpuMutex' = gpuMutex
            /\ shader' = IF cb.kind = "setBuffer"
                         THEN setBuffer(shader, cb.tag, cb.handle)
                         ELSE shader
  /\ UNCHANGED <<alive, tasks, gh, notPipe>>

NextCb ==
  \/ \E k \in KernelStrings : LoadKernelString(k)
  \/ \E tag \in Tags, h \in Handles : SetBuffer(tag, h)
  \/ \E d \in Dims, cb \in Callbacks : CbDispatchAsync(d, cb)
  \/ WorkerLock
  \/ \E f \in FailPoints : CbWorkerBody(f)
  \/ \E outcome \in RelockOutcomes : CallbackRuns(outcome)
  \/ WorkerUnlock

SpecCb == InitPipe /\ [][NextCb]_vars

\* the host thread's setBuffer call enters its critical section in this step
HostEntersSetBuffer ==
  \E tag \in Tags, h \in Handles : tag >= 0 /\ h # 0 /\ SetBuffer(tag, h)

\* C38 as stated: the callback of dispatchAsync runs with the GPU mutex held
\* by the worker, no setBuffer call enters its critical section meanwhile, and
\* a callback that calls setBuffer never returns.
C38_CallbackHoldsMutex ==
  [][/\ wk'.state = "calling" => gpuMutex' = "worker"
     /\ wk.state = "calling" => ~HostEntersSetBuffer
     /\ (wk.state = "calling" /\ wk.task.cb.kind = "setBuffer")
          => wk'.state \in {"calling", "stuck", "threw"}
     /\ wk.state \in {"stuck", "threw"} => wk'.state = wk.state]_vars

\* C38, amended: as above, for a callback whose setBuffer call has a
\* non-negative slot and a non-null buffer; such a callback blocks for ever or
\* is left by an exception, and the worker runs no further task.  A callback
\* whose setBuffer call has a negative slot or a null buffer returns, and the
\* call changes nothing.
C38_Amended ==
  [][/\ wk'.state = "calling" => gpuMutex' = "worker"
     /\ wk.state = "calling" => ~HostEntersSetBuffer
     /\ (wk.state = "calling" /\ wk.task.cb.kind = "setBuffer"
           /\ wk.task.cb.tag >= 0 /\ wk.task.cb.handle # 0)
          => wk'.state \in {"calling", "stuck", "threw"}
     /\ (wk.state = "calling" /\ wk.task.cb.kind = "setBuffer"
           /\ ~(wk.task.cb.tag >= 0 /\ wk.task.cb.handle # 0))
          => /\ wk'.state \in {"calling", "ran"}
             /\ wk'.state = "ran" => shader' = shader
     /\ wk.state \in {"stuck", "threw"} => wk'.state = wk.state]_vars

\* the callback of a submitted dispatchAsync called setBuffer(0, b) and the
\* worker is blocked on the mutex it holds
C38_Witness ==
  /\ wk.state = "stuck"
  /\ gpuMutex = "worker"
  /\ wk.task.cb.kind = "setBuffer"
  /\ gh.last.events = <<"submit", "callback">>

---------------------------------------------------------------------------
(* loadKernelString on the host thread against a dispatch task on the      *)
(* worker.  loadKernelString takes no lock, so it can run between any two  *)
(* statements of the task; the task is split where updatePipelineIfNeeded  *)
(* has made its four create* calls and has not yet cleared pipelineDirty.  *)

\* updatePipelineIfNeeded from "pipelineDirty = false" on, the create* calls
\* having returned r, on the shader as it is by then
finishUpdate(s, r, fail) ==
  IF ~r.ret THEN Res(s, FALSE, r.built, r.rel, r.failed)
  ELSE Only({AndThen(Res(c, TRUE, r.built, r.rel, r.failed),
                     RebuildBindings(c, fail)) :
             c \in {[s EXCEPT !.pipelineDirty = FALSE, !.bindingsDirty = TRUE]}})

\* the dispatch closure up to the end of the create* calls; with nothing to
\* rebuild, the whole closure
RaceBegin(fail) ==
  /\ wk.state = "locked"
  /\ IF shader.shaderCode # "" /\ DimsOk(wk.task.dims) /\ shader.pipelineDirty
     THEN \E r \in {BuildPipelineArtifacts(shader, fail)} :
            /\ shader' = r.sh
            /\ wk' = [state |-> "built", task |-> wk.task, behind |-> wk.behind,
                      part |-> [ret |-> r.ret, built |-> r.built,
                                rel |-> r.rel, failed |-> r.failed],
                      fail |-> fail]
            /\ gh' = gh
     ELSE \E o \in {dispatchTask(shader, wk.task.dims, fail)} :
            /\ shader' = o.sh
            /\ wk' = [wk EXCEPT !.state = "ran"]
            /\ gh' = Record(o, wk.task)
  /\ UNCHANGED <<alive, tasks, gpuMutex, notPipe>>

\* the rest of the closure
RaceFinish ==
  /\ wk.state = "built"
  /\ \E o \in {dispatchAfterUpdate(finishUpdate(shader, wk.part, wk.fail),
                                   wk.fail)} :
        /\ shader' = o.sh
        /\ gh' = Record(o, wk.task)
  /\ wk' = [state |-> "ran", task |-> wk.task, behind |-> wk.behind]
  /\ UNCHANGED <<alive, tasks, gpuMutex, notPipe>>

NextRace ==
  \/ \E k \in KernelStrings : LoadKernelString(k)
  \/ \E tag \in Tags, h \in Handles : SetBuffer(tag, h)
  \/ \E d \in Dims : Dispatch(d)
  \/ WorkerLock
  \/ \E f \in FailPoints : RaceBegin(f)
  \/ RaceFinish
  \/ WorkerUnlock

SpecRace == InitPipe /\ [][NextRace]_vars

\* C31: once every queued dispatch has run, a clear pipelineDirty means that
\* the cached shader module and compute pipeline were built from the current
\* kernel source, however loadKernelString interleaved with the tasks.
C31_SourceChangeNotLost ==
  (tasks = <<>> /\ wk.state = "idle" /\ ~shader.pipelineDirty)
    => /\ ~shader.shaderModule.isNull
       /\ shader.shaderModule.src = shader.shaderCode
       /\ ~shader.computePipeline.isNull
       /\ shader.computePipeline.src = shader.shaderCode

====
